---- MODULE Spec2Model ----
(***************************************************************************)
(* Model of the conversion pipeline of video_converter.py: the commands of *)
(* the control (UI) thread and its queue consumer, the threads running     *)
(* convert_videos, the conversion watchdog, the scan thread as far as the  *)
(* pipeline sees it, the external transcode process, and the files the     *)
(* pipeline reads and writes.                                              *)
(***************************************************************************)
EXTENDS Integers, Sequences, FiniteSets, TLC

(***************************************************************************)
(* Bounds of the model.                                                    *)
(***************************************************************************)
\* number of conversion runs that may be started in one behaviour of the
\* specifications of restarted conversions (SpecRestart, SpecStuck)
MaxRuns == 2
\* number of conversion runs that may be started in one behaviour of Spec
MaxSessionRuns == 1
\* seconds of wall-clock time that one Tick of the model stands for
TickSeconds == 300
\* number of scans that may be started in one behaviour
MaxScans == 2
\* the scans started in a session that looks at one scan in full
MaxSessionScans == 1
\* the largest capacity of an LRUCache
MaxCapacity == 2
\* number of threads that call the cache concurrently
MaxWorkers == 2
\* the largest maxsize of a SafeQueue
MaxQueue == 2
\* number of events a SafeQueue may drop in one behaviour
MaxDrops == 2
\* number of events put on each queue of the consumer in one behaviour
MaxEvents == 6
\* number of streams ffprobe reports for a file
MaxStreams == 2
\* number of failures (directory, stat, probe, batch time limit) one scan meets
MaxFaults == 1
\* the number of paths of one batch of the scan: stands for BATCH_SIZE (25)
BatchSize == 2
\* the number of results after which the scan emits a batch of records:
\* stands for the 10 of scan_videos_thread
EmitEvery == 2

(***************************************************************************)
(* Program constants.                                                      *)
(***************************************************************************)
FFMPEG_TIMEOUT == 300
WATCHDOG_IDLE == 600
PROGRESS_LOG_INTERVAL == 30
QUEUE_PROCESS_LIMIT == 5
MAX_QUEUE_SIZE == 500
UI_UPDATE_INTERVAL == 100

(***************************************************************************)
(* The files of the source folder, in the order the traversal finds them.  *)
(* A path is a stem and an extension; the destination of a record is its   *)
(* path relative to the source root with the extension replaced by mp4,    *)
(* under the output root.                                                  *)
(***************************************************************************)
FileOrder == << [stem |-> "a", ext |-> "mov"], [stem |-> "b", ext |-> "mov"] >>
Files == { FileOrder[i] : i \in 1..Len(FileOrder) }

OutputFile(f) == [stem |-> f.stem, ext |-> "mp4"]

Runs == 1..MaxRuns

VARIABLES
    is_converting,        \* self.is_converting
    is_scanning,          \* self.is_scanning
    delete_originals,     \* self.delete_originals
    convert_button,       \* TRUE iff convert_button is enabled ('normal')
    cancel_convert_button,\* TRUE iff cancel_convert_button is enabled
    video_files,          \* self.video_files: the records, by their paths
    originals,            \* files present in the source folder
    backups,              \* originals for which a .bak sibling exists
    outfiles,             \* files present in the output folder
    conv,                 \* conv[r]: the thread running convert_videos of run r
    wd,                   \* wd[r]: position of the watchdog thread of run r
    nruns,                \* number of conversion runs started so far
    idle,                 \* ticks since last_conversion_activity was written
    ui_queue,             \* self.ui_queue: the pending completion events
    scan,                 \* position of the scan thread
    status,               \* status[r][i]: last status run r emitted for selected[i]
    launched,             \* launched[r]: positions run r launched a transcode for
    done_events,          \* done_events[r]: payloads of the conversion_done events of run r
    cancel_seen,          \* cancel_seen[r]: position being transcoded when the flag was cleared, or 0
    stuck_seen,           \* stuck_seen[r]: files run r had begun when a watchdog cancelled, or -1
    source_folder,        \* self.source_folder: the path in the source entry
    include_compatible,   \* self.include_compatible
    messagebox,           \* the text of the error dialog that is open, or "none"
    sc,                   \* sc[s]: the thread running scan_videos_thread of scan s
    nscans,               \* number of scans started so far
    probes,               \* the probes made so far: path, caller, outcome
    complete_order        \* the scans of the scan_complete events put so far, in order

VARIABLES
    video_info_cache,     \* self.video_info_cache: maxsize, cache, access_order, lock
    cw,                   \* cw[t]: the thread t inside a method of the cache
    used,                 \* the keys got (hit) or put since the last clear, oldest use first
    last_op,              \* the cache operation that returned last
    cache_error,          \* TRUE once a cache method has raised
    safe_queue,           \* a SafeQueue: maxsize, queue, dropped_items, lock
    pw,                   \* pw[t]: the producer thread t inside SafeQueue.put
    false_returns,        \* number of calls of SafeQueue.put that have returned False
    log_queue,            \* self.log_queue
    pq,                   \* the call of process_queues: position, counters, events handled, delay
    produced,             \* number of events put on each of the two queues so far
    handled,              \* number of events process_queues has taken from each queue so far
    shutdown_event,       \* self.shutdown_event is set
    probe,                \* a call of the metadata probe: the ffprobe run, what it returned or raised
    quality_var,          \* self.quality_var
    resolution_var,       \* self.resolution_var
    cmd,                  \* the command build_ffmpeg_command returned last
    tools,                \* which of ffmpeg and ffprobe can be run on this machine
    app                   \* "starting", "running" (mainloop entered) or "exited"

VARIABLES
    video_tree,           \* self.video_tree: the rows of the list, top to bottom
    tree_seen,            \* tree_seen[s]: display events of scan s handled so far
    quit_dialog           \* how the last request to close has ended

\* the state of the scanner
ScanVars == << source_folder, include_compatible, messagebox, sc, nscans,
               probes, complete_order >>

\* the state of the conversion pipeline that the scanner does not touch
ConvVars == << is_converting, delete_originals, convert_button,
               cancel_convert_button, originals, backups, outfiles, conv, wd,
               nruns, idle, scan, status, launched, done_events, cancel_seen,
               stuck_seen >>

\* the state of the metadata cache and of the threads that call it
CacheVars == << video_info_cache, cw, used, last_op, cache_error >>

\* the state of a SafeQueue and of its producers
QueueVars == << safe_queue, pw, false_returns >>

\* the state of the queue consumer and of what it reads beside the ui_queue
TickVars == << log_queue, pq, produced, handled, shutdown_event >>

\* the state of a call of the probe and of the command builder
CallVars == << probe, quality_var, resolution_var, cmd >>

\* the state of the machine and of the application's start
StartVars == << tools, app >>

\* the state of the window: the displayed list and the quit confirmation
ViewVars == << video_tree, tree_seen, quit_dialog >>

\* the state of the library objects, of the single calls and of the window
LibVars == << CacheVars, QueueVars, TickVars, CallVars, StartVars, ViewVars >>

vars == << is_converting, is_scanning, delete_originals, convert_button,
           cancel_convert_button, video_files, originals, backups, outfiles,
           conv, wd, nruns, idle, ui_queue, scan, status, launched,
           done_events, cancel_seen, stuck_seen, source_folder,
           include_compatible, messagebox, sc, nscans, probes, complete_order,
           video_info_cache, cw, used, last_op, cache_error,
           safe_queue, pw, false_returns,
           log_queue, pq, produced, handled, shutdown_event,
           probe, quality_var, resolution_var, cmd, tools, app,
           video_tree, tree_seen, quit_dialog >>

(***************************************************************************)
(* Helpers.                                                                *)
(***************************************************************************)
Min(a, b) == IF a < b THEN a ELSE b

Range(s) == { s[i] : i \in 1..Len(s) }

\* first value of a tick counter at which a "> limit seconds" test succeeds
IdleCap == (WATCHDOG_IDLE \div TickSeconds) + 1
ElapsedCap == (FFMPEG_TIMEOUT \div TickSeconds) + 1

\* SafeQueue.put: append unless the queue is full, in which case the new item
\* is dropped and the producer goes on without blocking
SafeQueuePut(q, item) == IF Len(q) < MAX_QUEUE_SIZE THEN Append(q, item) ELSE q

\* the thread object before Thread.start()
NoThread == [ pc |-> "idle", selected |-> << >>, processed |-> 0,
              successful |-> 0, failed |-> 0, skipped |-> 0,
              proc |-> "none", returncode |-> "none", elapsed |-> 0,
              last_progress |-> 0, progress |-> -1 ]

\* the value of the progress bar for `processed` of `total` files:
\* int((processed / total) * 100)
Percent(processed, total) == (processed * 100) \div total

\* the loop variable `video` of convert_videos
Video(r) == conv[r].selected[conv[r].processed + 1]

\* a conversion thread that has been started and has not returned
Alive(r) == conv[r].pc \notin {"idle", "done"}

\* threads whose transcode process is running when is_converting is cleared
MarkCancel ==
    [ r \in Runs |->
        IF is_converting /\ cancel_seen[r] = 0 /\ conv[r].proc = "running"
        THEN conv[r].processed + 1 ELSE cancel_seen[r] ]

\* number of files of its selection that run r has begun (emitted Converting
\* for), or is past the cancellation test of the iteration of
Begun(r) ==
    Cardinality({ i \in DOMAIN status[r] : status[r][i] # "none" })
        + (IF conv[r].pc = "begin" THEN 1 ELSE 0)

(***************************************************************************)
(* The source folders the scanner is pointed at, and what it reads there.  *)
(* A suffix is the sequence of its characters, as Path.suffix gives it.    *)
(***************************************************************************)
\* str.lower on the characters the suffixes of the model are written with
LowerChar(c) ==
    CASE c = "A" -> "a" [] c = "I" -> "i" [] c = "K" -> "k" [] c = "M" -> "m"
      [] c = "O" -> "o" [] c = "P" -> "p" [] c = "T" -> "t" [] c = "V" -> "v"
      [] c = "X" -> "x" [] OTHER -> c

Lower(str) == [ i \in DOMAIN str |-> LowerChar(str[i]) ]

VIDEO_EXTENSIONS ==
    { << ".", "m", "p", "4" >>, << ".", "a", "v", "i" >>, << ".", "m", "o", "v" >>,
      << ".", "m", "k", "v" >>, << ".", "w", "m", "v" >>, << ".", "f", "l", "v" >>,
      << ".", "w", "e", "b", "m" >>, << ".", "m", "4", "v" >>,
      << ".", "3", "g", "p" >> }

\* size in bytes of a file of mb megabytes, in the unit of the program
Megabytes(mb) == mb * 1024 * 1024

LARGE_FILE_THRESHOLD == 50 * 1024 * 1024

\* an entry of a directory tree: a regular file or a directory, with the
\* container and the video codec ffprobe finds in it
Entry(folder, name, suffix, is_file, mb, container, codec) ==
    [ path |-> << folder, name, suffix >>, suffix |-> suffix, is_file |-> is_file,
      size |-> Megabytes(mb), container |-> container, codec |-> codec ]

\* the entries of a folder in the order rglob yields them
Tree(folder) ==
    CASE folder = "scenario" ->
           << Entry(folder, "a", << ".", "m", "p", "4" >>, TRUE, 50, "MP4", "h264"),
              Entry(folder, "b", << ".", "m", "o", "v" >>, TRUE, 30, "MOV", "hevc") >>
      [] folder = "below" ->
           << Entry(folder, "a", << ".", "m", "p", "4" >>, TRUE, 49, "MP4", "h264"),
              Entry(folder, "b", << ".", "m", "o", "v" >>, TRUE, 30, "MOV", "hevc") >>
      [] folder = "mixed" ->
           << Entry(folder, "c", << ".", "M", "O", "V" >>, TRUE, 10, "MOV", "hevc"),
              Entry(folder, "notes", << ".", "t", "x", "t" >>, TRUE, 1, "none", "none"),
              Entry(folder, "s", << ".", "m", "p", "4" >>, TRUE, 10, "MP4", "h264"),
              Entry(folder, "d", << ".", "m", "p", "4" >>, FALSE, 0, "none", "none"),
              Entry(folder, "e", << ".", "m", "k", "v" >>, TRUE, 2001, "MATROSKA", "h264"),
              Entry(folder, "g", << ".", "a", "v", "i" >>, TRUE, 60, "AVI", "mpeg4") >>
      [] folder = "dcim" ->
           [ i \in 1..Len(FileOrder) |->
               Entry(folder, FileOrder[i].stem, << ".", "m", "o", "v" >>, TRUE, 30,
                     "MOV", "hevc") ]
      [] OTHER -> << >>

\* the paths the user can put in the source entry of a scan: folders, a path
\* that does not exist and the path of a regular file
SourcePaths == {"scenario", "below", "mixed", "missing", "file"}

PathExists(path) == path # "missing"
PathIsDir(path) == path \in {"scenario", "below", "mixed", "dcim"}

Scans == 1..MaxScans

\* the scan thread object before Thread.start()
NoScan == [ pc |-> "idle", source |-> "none", video_paths |-> << >>, i |-> 0,
            pending |-> {}, batch_results |-> << >>, found_count |-> 0,
            batches |-> << >>, completes |-> << >>, faults |-> 0,
            handled |-> {}, timed_out |-> {}, saw_cancel |-> FALSE,
            cancelled_at |-> -1 ]

(***************************************************************************)
(* The metadata cache (LRUCache) and the threads that call it.             *)
(***************************************************************************)
\* the capacities an LRUCache is built with: MAX_CACHE_SIZE in the program
Capacities == 1..MaxCapacity

\* the keys of the cache: paths of files, one more than the largest capacity
CacheKeys == 1..(MaxCapacity + 1)

\* the values of the cache: results of a probe
CacheValues == {"MOV", "AVI"}

\* the threads that call the cache: the probe workers and the UI thread
CacheThreads == 1..MaxWorkers

\* the dict of an empty cache
EmptyDict == [ k \in {} |-> "none" ]

\* LRUCache.__init__
LRUCache(maxsize) ==
    [ maxsize |-> maxsize, cache |-> EmptyDict, access_order |-> << >>, lock |-> 0 ]

\* a thread outside the cache
Outside == [ pc |-> "idle", key |-> 0, value |-> "none", oldest |-> 0,
             keys_before |-> {} ]

\* no operation has returned yet
NoOp == [ op |-> "none", key |-> 0, value |-> "none", hit |-> FALSE,
          keys_before |-> {}, used_before |-> << >>, result |-> "none" ]

\* the maxsize values a SafeQueue is built with: MAX_QUEUE_SIZE in the program
QueueSizes == 1..MaxQueue

\* the events producers put
Items == {"log", "progress"}

\* the threads that put events: conversion, scan and watchdog threads
Producers == 1..MaxWorkers

\* SafeQueue.__init__
SafeQueue(maxsize) ==
    [ maxsize |-> maxsize, queue |-> << >>, dropped_items |-> 0, lock |-> 0 ]

\* a producer outside put
Idle == [ pc |-> "idle", item |-> "none", read |-> 0 ]

\* the probe before any call
NoResult == [ format |-> "", compatible |-> FALSE, codec |-> "" ]
NoRun == [ exit |-> "none", stdout |-> "" ]
NoProbe == [ run |-> NoRun, called |-> "none", result |-> NoResult,
             raised |-> "none", cached |-> NoResult ]

\* no command built yet
NoCommand == [ quality |-> "", args |-> << >>, crf_seen |-> {} ]

\* process_queues before its first call
NotStarted == [ pc |-> "wait", log_processed |-> 0, ui_processed |-> 0,
                log_handled |-> << >>, ui_handled |-> << >>,
                next_interval |-> UI_UPDATE_INTERVAL, scheduled |-> FALSE ]

\* the cache after construction, with the maxsize the program gives it
CacheInit ==
    /\ video_info_cache = LRUCache(MaxCapacity)
    /\ cw = [ t \in CacheThreads |-> Outside ]
    /\ used = << >>
    /\ last_op = NoOp
    /\ cache_error = FALSE

\* a queue after construction
QueueInit ==
    /\ safe_queue = SafeQueue(MaxQueue)
    /\ pw = [ t \in Producers |-> Idle ]
    /\ false_returns = 0

\* the process_queues callback before start_queue_processing, with the
\* log queue it reads
TickInit ==
    /\ log_queue = << >>
    /\ pq = NotStarted
    /\ produced = [ log |-> 0, ui |-> 0 ]
    /\ handled = [ log |-> 0, ui |-> 0 ]
    /\ shutdown_event = FALSE

\* no call of the probe yet; the settings of a first start; no command built
CallInit ==
    /\ probe = NoProbe
    /\ quality_var = "medium"
    /\ resolution_var = "1920x1080"
    /\ cmd = NoCommand

\* both tools installed and the application started
StartInit ==
    /\ tools = [ ffmpeg |-> "ok", ffprobe |-> "ok" ]
    /\ app = "running"

\* an empty list, no display event handled, no request to close yet
ViewInit ==
    /\ video_tree = << >>
    /\ tree_seen = [ s \in Scans |-> 0 ]
    /\ quit_dialog = "none"

\* the library objects and the window after construction
LibInit == CacheInit /\ QueueInit /\ TickInit /\ CallInit /\ StartInit /\ ViewInit

\* the scanner after construction
ScannerInit ==
    /\ messagebox = "none"
    /\ sc = [ s \in Scans |-> NoScan ]
    /\ nscans = 0
    /\ probes = {}
    /\ complete_order = << >>

Init ==
    /\ is_converting = FALSE
    /\ is_scanning = FALSE
    /\ delete_originals \in BOOLEAN
    /\ convert_button = TRUE
    /\ cancel_convert_button = FALSE
    /\ video_files = << >>
    /\ originals = Files
    /\ backups = {}
    /\ outfiles \in SUBSET { OutputFile(f) : f \in Files }
    /\ conv = [ r \in Runs |-> NoThread ]
    /\ wd = [ r \in Runs |-> "off" ]
    /\ nruns = 0
    /\ idle = 0
    /\ ui_queue = << >>
    /\ scan = "idle"
    /\ status = [ r \in Runs |-> << >> ]
    /\ launched = [ r \in Runs |-> {} ]
    /\ done_events = [ r \in Runs |-> << >> ]
    /\ cancel_seen = [ r \in Runs |-> 0 ]
    /\ stuck_seen = [ r \in Runs |-> -1 ]
    /\ source_folder = "dcim"
    /\ include_compatible = FALSE
    /\ ScannerInit
    /\ LibInit

(***************************************************************************)
(* Commands of the control thread.                                         *)
(***************************************************************************)
\* the lists start_conversion can pass to the thread: the records of
\* video_files whose selected flag is set, in list order.  Every record is
\* selected at discovery; the toggles of the user since then are an input.
Selections ==
    { SelectSeq(video_files, LAMBDA f : f \in S) : S \in SUBSET Range(video_files) }

\* the thread and the watchdog are started; the watchdog finds is_converting
\* set and goes to sleep.  `limit` bounds the number of runs of a behaviour.
start_conversion(limit) ==
    /\ convert_button
    /\ nruns < limit
    /\ ~is_converting
    /\ \E sel \in Selections :
        /\ sel # << >>
        /\ LET r == nruns + 1 IN
            /\ nruns' = r
            /\ conv' = [conv EXCEPT ![r] = [NoThread EXCEPT !.pc = "loop",
                                                             !.selected = sel]]
            /\ wd' = [wd EXCEPT ![r] = "sleep"]
            /\ status' = [status EXCEPT ![r] = [i \in 1..Len(sel) |-> "none"]]
    /\ is_converting' = TRUE
    /\ convert_button' = FALSE
    /\ cancel_convert_button' = TRUE
    /\ idle' = 0
    /\ UNCHANGED << ScanVars, LibVars >>
    /\ UNCHANGED << is_scanning, delete_originals, video_files, originals,
                    backups, outfiles, ui_queue, scan, launched, done_events,
                    cancel_seen, stuck_seen >>

\* the flag is cleared and, after a join of at most 5 s, the buttons are reset
\* whether or not the thread has returned
cancel_conversion ==
    /\ cancel_convert_button
    /\ is_converting' = FALSE
    /\ convert_button' = TRUE
    /\ cancel_convert_button' = FALSE
    /\ cancel_seen' = MarkCancel
    /\ UNCHANGED << ScanVars, LibVars >>
    /\ UNCHANGED << is_scanning, delete_originals, video_files, originals,
                    backups, outfiles, conv, wd, nruns, idle, ui_queue, scan,
                    status, launched, done_events, stuck_seen >>

\* the source folder exists; the previous results are cleared
scan_videos ==
    /\ ~is_scanning
    /\ scan = "idle"
    /\ is_scanning' = TRUE
    /\ video_files' = << >>
    /\ scan' = "work"
    /\ UNCHANGED << ScanVars, LibVars >>
    /\ UNCHANGED << is_converting, delete_originals, convert_button,
                    cancel_convert_button, originals, backups, outfiles, conv, wd,
                    nruns, idle, ui_queue, status, launched, done_events,
                    cancel_seen, stuck_seen >>

\* what handling one event of the ui_queue does to the state of the control
\* thread u: handle_conversion_done and handle_scan_complete
process_ui_message(u, msg_type) ==
    IF msg_type = "conversion_done"
    THEN [u EXCEPT !.is_converting = FALSE, !.convert_button = TRUE,
                   !.cancel_convert_button = FALSE]
    ELSE IF msg_type = "scan_complete"
    THEN [u EXCEPT !.is_scanning = FALSE]
    ELSE u

RECURSIVE HandleAll(_, _)
HandleAll(u, msgs) ==
    IF msgs = << >> THEN u
    ELSE HandleAll(process_ui_message(u, Head(msgs)), Tail(msgs))

\* the events one tick of process_queues takes from the ui_queue: the first k,
\* the other events of the at most QUEUE_PROCESS_LIMIT it handles being the
\* display events, which the model does not keep in the queue
Drained(k) == SubSeq(ui_queue, 1, k)

process_queues ==
    /\ ui_queue # << >>
    /\ \E k \in 1..Min(Len(ui_queue), QUEUE_PROCESS_LIMIT) :
        /\ ui_queue' = SubSeq(ui_queue, k + 1, Len(ui_queue))
        /\ LET u == HandleAll([ is_converting |-> is_converting,
                                convert_button |-> convert_button,
                                cancel_convert_button |-> cancel_convert_button,
                                is_scanning |-> is_scanning ], Drained(k)) IN
            /\ is_converting' = u.is_converting
            /\ convert_button' = u.convert_button
            /\ cancel_convert_button' = u.cancel_convert_button
            /\ is_scanning' = u.is_scanning
            /\ cancel_seen' = IF u.is_converting THEN cancel_seen ELSE MarkCancel
    /\ UNCHANGED << ScanVars, LibVars >>
    /\ UNCHANGED << delete_originals, video_files, originals, backups, outfiles,
                    conv, wd, nruns, idle, scan, status, launched, done_events,
                    stuck_seen >>

(***************************************************************************)
(* The conversion thread: convert_videos and what it calls.                *)
(***************************************************************************)
\* what no step of a conversion thread changes
ConvFrame ==
    /\ UNCHANGED << ScanVars, LibVars >>
    /\ UNCHANGED << is_converting, is_scanning, delete_originals, convert_button,
                    cancel_convert_button, video_files, wd, nruns, scan,
                    cancel_seen, stuck_seen >>

\* a for loop that takes the same record again
NextVideo_same(c) == [c EXCEPT !.pc = "loop"]

\* the thread goes on to the next iteration of the for loop
NextVideo(c) == [c EXCEPT !.processed = c.processed + 1, !.pc = "loop"]

\* the cancellation test at the top of every iteration
Cancelled == ~is_converting \/ shutdown_event

\* top of the for loop; after the loop the progress value 100 and the aggregate
\* result are put on the queue
ConvLoop(r) ==
    /\ conv[r].pc = "loop"
    /\ IF conv[r].processed >= Len(conv[r].selected) \/ Cancelled
       THEN /\ conv' = [conv EXCEPT ![r].pc = "done", ![r].progress = 100]
            /\ ui_queue' = SafeQueuePut(ui_queue, "conversion_done")
            /\ done_events' = [done_events EXCEPT ![r] =
                                 Append(@, << conv[r].successful, conv[r].failed,
                                              conv[r].skipped >>)]
       ELSE /\ conv' = [conv EXCEPT ![r].pc = "begin"]
            /\ UNCHANGED << ui_queue, done_events >>
    /\ ConvFrame
    /\ UNCHANGED << originals, backups, outfiles, idle, status, launched >>

\* the record is looked up in video_files; a record that is no longer in the
\* list raises ValueError, which the handler of the iteration counts as failed
\* (its own lookup fails again, so it emits no status).  Otherwise Converting
\* and the progress value are emitted and the activity timestamp is written.
ConvBegin(r) ==
    /\ conv[r].pc = "begin"
    /\ IF Video(r) \notin Range(video_files)
       THEN /\ conv' = [conv EXCEPT ![r] =
                          NextVideo([conv[r] EXCEPT !.failed = conv[r].failed + 1])]
            /\ UNCHANGED << status, idle >>
       ELSE /\ conv' = [conv EXCEPT ![r].pc = "exists",
                                     ![r].progress =
                                        Percent(conv[r].processed,
                                                Len(conv[r].selected))]
            /\ status' = [status EXCEPT ![r][conv[r].processed + 1] = "Converting"]
            /\ idle' = 0
    /\ ConvFrame
    /\ UNCHANGED << originals, backups, outfiles, ui_queue, launched, done_events >>

\* the destination test of convert_videos
DestinationExists(f) == OutputFile(f) \in outfiles

ConvCheckExists(r) ==
    /\ conv[r].pc = "exists"
    /\ IF DestinationExists(Video(r))
       THEN /\ conv' = [conv EXCEPT ![r] =
                          NextVideo([conv[r] EXCEPT !.skipped = conv[r].skipped + 1])]
            /\ status' = [status EXCEPT ![r][conv[r].processed + 1] = "Skipped"]
       ELSE /\ conv' = [conv EXCEPT ![r].pc = "single"]
            /\ UNCHANGED status
    /\ ConvFrame
    /\ UNCHANGED << originals, backups, outfiles, idle, ui_queue, launched,
                    done_events >>

\* a backup_and_delete that removes the original whether or not the copy
\* succeeded
BackupAndDelete_unguarded(f, copied, removed) ==
    [ backups |-> IF copied THEN backups \cup {f} ELSE backups,
      originals |-> IF removed THEN originals \ {f} ELSE originals ]

\* backup_and_delete: the files after copy2 and os.remove, given whether the
\* copy succeeded and whether the removal, attempted after a successful copy
\* only, succeeded
BackupAndDelete(f, copied, removed) ==
    [ backups |-> IF copied THEN backups \cup {f} ELSE backups,
      originals |-> IF copied /\ removed THEN originals \ {f} ELSE originals ]

\* the part of an iteration after convert_single_video has returned `success`,
\* c being the thread at that point: the result is counted, the original is
\* backed up and deleted if asked for, and the status is emitted
ConvReturn(r, c, success) ==
    /\ IF success
       THEN /\ conv' = [conv EXCEPT ![r] =
                          NextVideo([c EXCEPT !.successful = c.successful + 1])]
            /\ status' = [status EXCEPT ![r][c.processed + 1] = "Converted"]
            /\ IF delete_originals
               THEN \E copied \in BOOLEAN, removed \in BOOLEAN :
                      /\ (copied \/ removed) => Video(r) \in originals
                      /\ backups' = BackupAndDelete(Video(r), copied, removed).backups
                      /\ originals' = BackupAndDelete(Video(r), copied, removed).originals
               ELSE UNCHANGED << originals, backups >>
       ELSE /\ conv' = [conv EXCEPT ![r] =
                          NextVideo([c EXCEPT !.failed = c.failed + 1])]
            /\ status' = [status EXCEPT ![r][c.processed + 1] = "Failed"]
            /\ UNCHANGED << originals, backups >>

\* the thread with its transcode process terminated or reaped, `code` being
\* process.returncode
Reaped(c, code) == [c EXCEPT !.proc = "none", !.returncode = code]

\* convert_single_video up to the first turn of the polling loop: True at
\* once when the destination exists; otherwise the process is started, and
\* terminated at once when the cancellation flag is found set
ConvLaunch(r) ==
    /\ conv[r].pc = "single"
    /\ IF OutputFile(Video(r)) \in outfiles
       THEN /\ ConvReturn(r, conv[r], TRUE)
            /\ UNCHANGED launched
       ELSE /\ launched' = [launched EXCEPT ![r] = @ \cup {conv[r].processed + 1}]
            /\ IF Cancelled
               THEN ConvReturn(r, Reaped(conv[r], "killed"), FALSE)
               ELSE /\ conv' = [conv EXCEPT ![r].proc = "running",
                                             ![r].returncode = "none",
                                             ![r].elapsed = 0,
                                             ![r].last_progress = 0,
                                             ![r].pc = "readline"]
                    /\ UNCHANGED << status, originals, backups >>
    /\ ConvFrame
    /\ UNCHANGED << outfiles, idle, ui_queue, done_events >>

\* the timeout test of the polling loop
TimedOut(c) == c.elapsed * TickSeconds > FFMPEG_TIMEOUT

\* readline returns a line the running process has written; after the sleep
\* the next turn of the polling loop tests cancellation and timeout, and
\* writes the activity timestamp when 30 s have passed since it last did
ConvReadLine(r) ==
    /\ conv[r].pc = "readline"
    /\ conv[r].proc = "running"
    /\ LET c == conv[r] IN
       IF Cancelled \/ TimedOut(c)
       THEN /\ ConvReturn(r, Reaped(c, "killed"), FALSE)
            /\ UNCHANGED idle
       ELSE IF (c.elapsed - c.last_progress) * TickSeconds > PROGRESS_LOG_INTERVAL
       THEN /\ conv' = [conv EXCEPT ![r].last_progress = c.elapsed]
            /\ idle' = 0
            /\ UNCHANGED << status, originals, backups >>
       ELSE UNCHANGED << conv, idle, status, originals, backups >>
    /\ ConvFrame
    /\ UNCHANGED << outfiles, ui_queue, launched, done_events >>

\* a classification that takes every natural exit for a success
ExitSuccess_any(proc) == proc \in {"exit0", "exit1"}

\* success is classified by the exit code alone
ExitSuccess(proc) == proc = "exit0"

\* the process has exited: readline returns at end of file, the polling loop
\* ends and the exit code decides
ConvReadEOF(r) ==
    /\ conv[r].pc = "readline"
    /\ conv[r].proc \in {"exit0", "exit1"}
    /\ ConvReturn(r, Reaped(conv[r], conv[r].proc), ExitSuccess(conv[r].proc))
    /\ ConvFrame
    /\ UNCHANGED << outfiles, idle, ui_queue, launched, done_events >>

(***************************************************************************)
(* The external transcode process of a conversion thread.  The command     *)
(* line names the final destination as the output file, so what the        *)
(* process writes it writes there.                                         *)
(***************************************************************************)
EnvFrame ==
    /\ UNCHANGED << ScanVars, LibVars >>
    /\ UNCHANGED << is_converting, is_scanning, delete_originals, convert_button,
                    cancel_convert_button, video_files, originals, backups, wd,
                    nruns, idle, ui_queue, scan, status, launched, done_events,
                    cancel_seen, stuck_seen >>

\* the process has opened its output file and written part of it
ProcWrite(r) ==
    /\ conv[r].proc = "running"
    /\ OutputFile(Video(r)) \notin outfiles
    /\ outfiles' = outfiles \cup {OutputFile(Video(r))}
    /\ UNCHANGED conv
    /\ EnvFrame

\* the process exits by itself: code 0 with the output file complete
ProcExitZero(r) ==
    /\ conv[r].proc = "running"
    /\ conv' = [conv EXCEPT ![r].proc = "exit0"]
    /\ outfiles' = outfiles \cup {OutputFile(Video(r))}
    /\ EnvFrame

\* the process exits by itself with a non-zero code
ProcExitNonZero(r) ==
    /\ conv[r].proc = "running"
    /\ conv' = [conv EXCEPT ![r].proc = "exit1"]
    /\ UNCHANGED outfiles
    /\ EnvFrame

(***************************************************************************)
(* Time.  A tick passes only while every conversion thread that is alive   *)
(* is blocked in readline on a process that writes nothing, and every      *)
(* watchdog has had the wake-up its 60 s sleep gives it within a tick.     *)
(***************************************************************************)
Blocked(r) == conv[r].pc = "readline" /\ conv[r].proc = "running"

Tick ==
    /\ \E r \in Runs : Blocked(r)
    /\ \A r \in Runs : Alive(r) => Blocked(r)
    /\ \A w \in Runs : wd[w] # "due"
    /\ idle' = Min(idle + 1, IdleCap)
    /\ conv' = [ r \in Runs |->
                   IF Blocked(r)
                   THEN [conv[r] EXCEPT !.elapsed = Min(@ + 1, ElapsedCap)]
                   ELSE conv[r] ]
    /\ wd' = [ w \in Runs |-> IF wd[w] = "sleep" THEN "due" ELSE wd[w] ]
    /\ UNCHANGED << ScanVars, LibVars >>
    /\ UNCHANGED << is_converting, is_scanning, delete_originals, convert_button,
                    cancel_convert_button, video_files, originals, backups,
                    outfiles, nruns, ui_queue, scan, status, launched,
                    done_events, cancel_seen, stuck_seen >>

(***************************************************************************)
(* conversion_watchdog.                                                    *)
(***************************************************************************)
\* the idle test of the watchdog
Stuck == idle * TickSeconds > WATCHDOG_IDLE

\* after the sleep the idle time is tested, whatever the flag says; a stuck
\* conversion is cancelled and reported, otherwise the loop condition decides
\* between another sleep and the end of the watchdog
conversion_watchdog(w) ==
    /\ wd[w] \in {"sleep", "due"}
    /\ IF Stuck
       THEN /\ wd' = [wd EXCEPT ![w] = "off"]
            /\ is_converting' = FALSE
            /\ ui_queue' = SafeQueuePut(ui_queue, "conversion_done")
            /\ done_events' = [done_events EXCEPT ![w] = Append(@, << 0, 0, 0 >>)]
            /\ cancel_seen' = MarkCancel
            /\ stuck_seen' = [ r \in Runs |->
                                 IF Alive(r) /\ stuck_seen[r] = -1
                                 THEN Begun(r) ELSE stuck_seen[r] ]
       ELSE /\ wd' = [wd EXCEPT ![w] = IF is_converting THEN "sleep" ELSE "off"]
            /\ UNCHANGED << is_converting, ui_queue, done_events, cancel_seen,
                            stuck_seen >>
    /\ UNCHANGED << ScanVars, LibVars >>
    /\ UNCHANGED << is_scanning, delete_originals, convert_button,
                    cancel_convert_button, video_files, originals, backups,
                    outfiles, conv, nruns, idle, scan, status, launched >>

(***************************************************************************)
(* The scan thread, as far as the conversion pipeline sees it: the record  *)
(* list, emptied by scan_videos, is replaced by the records found and the  *)
(* completion is reported.                                                 *)
(***************************************************************************)
\* the files the traversal finds, in traversal order
Discovered == SelectSeq(FileOrder, LAMBDA f : f \in originals)

scan_videos_thread ==
    /\ scan = "work"
    /\ scan' = "idle"
    /\ video_files' = Discovered
    /\ ui_queue' = SafeQueuePut(ui_queue, "scan_complete")
    /\ UNCHANGED << ScanVars, LibVars >>
    /\ UNCHANGED << is_converting, is_scanning, delete_originals, convert_button,
                    cancel_convert_button, originals, backups, outfiles, conv, wd,
                    nruns, idle, status, launched, done_events, cancel_seen,
                    stuck_seen >>

(***************************************************************************)
(* The scanner: the scan commands of the control thread and the thread     *)
(* running scan_videos_thread, with the probe workers of its pool.         *)
(***************************************************************************)
\* a probe that reports no file as compatible
get_video_info_never(entry, outcome) ==
    [ format |-> IF outcome = "ok" THEN entry.container ELSE "Error",
      compatible |-> FALSE ]

\* get_video_info: what the probe of a file returns, `outcome` being how the
\* ffprobe process ended
get_video_info(entry, outcome) ==
    IF outcome = "ok"
    THEN [ format |-> entry.container,
           compatible |-> entry.container = "MP4" /\ entry.codec = "h264" ]
    ELSE IF outcome = "timeout"
    THEN [ format |-> "Timeout", compatible |-> FALSE ]
    ELSE [ format |-> "Error", compatible |-> FALSE ]

\* how a probe can end: as an error only when ffprobe cannot be run
ProbeOutcomes ==
    IF tools.ffprobe = "ok" THEN {"ok", "timeout", "error"} ELSE {"error"}

\* a scan that probes every file, whatever its size
ProbedInScan_all(entry) == TRUE

\* process_video_file probes the files below the threshold only
ProbedInScan(entry) == entry.size < LARGE_FILE_THRESHOLD

\* a scan that skips every file above the probe threshold
TooLarge_threshold(entry) == entry.size > LARGE_FILE_THRESHOLD

\* process_video_file skips the files of more than 2000 MB
TooLarge(entry) == entry.size > Megabytes(2000)

\* process_video_file: no record (None, the empty sequence) or one record
process_video_file(entry, stat_ok, outcome) ==
    IF ~stat_ok \/ TooLarge(entry)
    THEN << >>
    ELSE LET video_info == IF ProbedInScan(entry)
                           THEN get_video_info(entry, outcome)
                           ELSE [ format |-> "Unknown", compatible |-> FALSE ] IN
         IF ~include_compatible /\ video_info.compatible
         THEN << >>
         ELSE << [ path |-> entry.path, size |-> entry.size,
                   format |-> video_info.format,
                   compatible |-> video_info.compatible,
                   selected |-> TRUE ] >>

\* a traversal that takes every regular file
IsVideoFile_any(entry) == entry.is_file

\* the test of the first pass of the scan
IsVideoFile(entry) == entry.is_file /\ Lower(entry.suffix) \in VIDEO_EXTENSIONS

\* the Python slice seq[start:]
SliceFrom(seq, start) ==
    IF start < 0
    THEN SubSeq(seq, (IF Len(seq) + start < 0 THEN 0 ELSE Len(seq) + start) + 1,
                Len(seq))
    ELSE SubSeq(seq, start + 1, Len(seq))

\* a scan thread that has been started and has not returned
ScanAlive(s) == sc[s].pc \notin {"idle", "done"}

\* the cancellation test of the scan thread and of its workers
ScanCancelled == ~is_scanning \/ shutdown_event

\* the source path is refused when it is missing
SourceRejected_missing(path) == ~PathExists(path)

\* the source path is refused when it is missing or no directory
SourceRejected(path) == ~PathExists(path) \/ ~PathIsDir(path)

\* scan_videos, with its tests of the source path
scan_videos_command(limit) ==
    /\ messagebox = "none"
    /\ ~is_scanning
    /\ SourceRejected(source_folder) \/ nscans < limit
    /\ IF SourceRejected(source_folder)
       THEN /\ messagebox' = IF ~PathExists(source_folder)
                             THEN "Source folder does not exist!"
                             ELSE "Source path is not a directory!"
            /\ UNCHANGED << is_scanning, video_files, sc, nscans >>
       ELSE /\ is_scanning' = TRUE
            /\ video_files' = << >>
            /\ nscans' = nscans + 1
            /\ sc' = [sc EXCEPT ![nscans + 1] = [NoScan EXCEPT !.pc = "start"]]
            /\ UNCHANGED messagebox
    /\ UNCHANGED << source_folder, include_compatible, probes, complete_order,
                    ui_queue >>
    /\ UNCHANGED << ConvVars, LibVars >>

\* the user closes the error dialog
dismiss_messagebox ==
    /\ messagebox # "none"
    /\ messagebox' = "none"
    /\ UNCHANGED << source_folder, include_compatible, sc, nscans, probes,
                    complete_order, is_scanning, video_files, ui_queue >>
    /\ UNCHANGED << ConvVars, LibVars >>

\* the user puts another path in the source entry
browse_source(path) ==
    /\ messagebox = "none"
    /\ path # source_folder
    /\ source_folder' = path
    /\ UNCHANGED << include_compatible, messagebox, sc, nscans, probes,
                    complete_order, is_scanning, video_files, ui_queue >>
    /\ UNCHANGED << ConvVars, LibVars >>

\* the flag is cleared and, after a join of at most 5 s, the buttons are reset
\* whether or not the thread has returned
cancel_scan ==
    /\ messagebox = "none"
    /\ is_scanning
    /\ is_scanning' = FALSE
    /\ sc' = [ s \in Scans |->
                 IF ScanAlive(s) /\ sc[s].cancelled_at = -1
                 THEN [sc[s] EXCEPT !.cancelled_at = Len(sc[s].batches)]
                 ELSE sc[s] ]
    /\ UNCHANGED << source_folder, include_compatible, messagebox, nscans,
                    probes, complete_order, video_files, ui_queue >>
    /\ UNCHANGED << ConvVars, LibVars >>

\* what no step of a scan thread changes
ScanFrame ==
    /\ UNCHANGED << source_folder, include_compatible, messagebox, nscans >>
    /\ UNCHANGED << ConvVars, LibVars >>

\* the thread s after it has put a scan_complete event with the count n
Completed(t, n) == [t EXCEPT !.completes = Append(@, n)]

\* scan_videos_thread up to the second pass: the list is emptied and the
\* source folder is traversed.  A traversal that raises, or that finds the
\* scan cancelled, puts scan_complete with 0 and returns, and the finally
\* clause puts scan_complete again.
ScanStart(s) ==
    /\ sc[s].pc = "start"
    /\ video_files' = << >>
    /\ \E raised \in BOOLEAN :
        /\ raised => sc[s].faults < MaxFaults
        /\ IF raised \/ ScanCancelled
           THEN /\ sc' = [sc EXCEPT ![s] =
                            Completed(Completed(
                                [sc[s] EXCEPT !.pc = "done",
                                              !.source = source_folder,
                                              !.faults = IF raised THEN @ + 1 ELSE @,
                                              !.saw_cancel = ~raised], 0), 0)]
                /\ ui_queue' = SafeQueuePut(SafeQueuePut(ui_queue, "scan_complete"),
                                            "scan_complete")
                /\ complete_order' = complete_order \o << s, s >>
           ELSE /\ sc' = [sc EXCEPT ![s].pc = "batch",
                                    ![s].source = source_folder,
                                    ![s].video_paths =
                                        SelectSeq(Tree(source_folder), IsVideoFile)]
                /\ UNCHANGED << ui_queue, complete_order >>
    /\ UNCHANGED << is_scanning, probes >>
    /\ ScanFrame

\* top of the loop over the batches: the next BatchSize paths are submitted
\* to the pool
ScanBatch(s) ==
    /\ sc[s].pc = "batch"
    /\ LET t == sc[s]
           n == Len(t.video_paths) IN
       IF t.i >= n
       THEN sc' = [sc EXCEPT ![s].pc = "final"]
       ELSE IF ScanCancelled
       THEN sc' = [sc EXCEPT ![s].pc = "final", ![s].saw_cancel = TRUE]
       ELSE sc' = [sc EXCEPT ![s].pc = "collect",
                             ![s].pending = (t.i + 1)..Min(t.i + BatchSize, n)]
    /\ UNCHANGED << is_scanning, video_files, ui_queue, probes, complete_order >>
    /\ ScanFrame

\* the thread s with the result of one worker taken in
Collected(t, result) ==
    IF result = << >>
    THEN t
    ELSE LET results == t.batch_results \o result IN
         [t EXCEPT !.batch_results = results,
                   !.found_count = @ + 1,
                   !.batches = IF Len(results) % EmitEvery = 0
                               THEN Append(@, SliceFrom(results, 0 - EmitEvery))
                               ELSE @]

\* the thread s at the end of the collection of a batch
BatchDone(t) == [t EXCEPT !.pending = {}, !.i = @ + BatchSize, !.pc = "batch"]

\* as_completed yields the future of one path of the batch, whichever has
\* completed: its worker has run process_video_file on it.  A cancelled scan
\* leaves the collection.
ScanCollect(s) ==
    /\ sc[s].pc = "collect"
    /\ \E p \in sc[s].pending :
        LET t == sc[s]
            entry == t.video_paths[p] IN
        IF ScanCancelled
        THEN /\ sc' = [sc EXCEPT ![s] = BatchDone([t EXCEPT !.saw_cancel = TRUE])]
             /\ UNCHANGED probes
        ELSE \E stat_ok \in BOOLEAN, outcome \in ProbeOutcomes :
               LET probed == stat_ok /\ ~TooLarge(entry) /\ ProbedInScan(entry)
                   fault == ~stat_ok \/ outcome # "ok"
                   u == Collected([t EXCEPT !.pending = @ \ {p},
                                            !.handled = @ \cup {p},
                                            !.faults = IF fault THEN @ + 1 ELSE @],
                                  process_video_file(entry, stat_ok, outcome)) IN
               /\ fault => t.faults < MaxFaults
               /\ ~probed => outcome = "ok"
               /\ sc' = [sc EXCEPT ![s] = IF u.pending = {} THEN BatchDone(u) ELSE u]
               /\ probes' = IF probed
                            THEN probes \cup {[ path |-> entry.path, by |-> "scan",
                                                outcome |-> outcome ]}
                            ELSE probes
    /\ UNCHANGED << is_scanning, video_files, ui_queue, complete_order >>
    /\ ScanFrame

\* the workers of the batch have not all finished within SCAN_TIMEOUT:
\* as_completed raises, and the handler around the loop over the batches
\* takes the exception
ScanTimeout(s) ==
    /\ sc[s].pc = "collect"
    /\ sc[s].pending # {}
    /\ sc[s].faults < MaxFaults
    /\ sc' = [sc EXCEPT ![s].pc = "final", ![s].pending = {}, ![s].faults = @ + 1,
                         ![s].timed_out = sc[s].pending]
    /\ UNCHANGED << is_scanning, video_files, ui_queue, probes, complete_order >>
    /\ ScanFrame

\* the results not yet emitted: batch_results[-(len(batch_results) % 10):]
Remaining(results) == SliceFrom(results, 0 - (Len(results) % EmitEvery))

\* after the loop: the remaining results are emitted, the record list is
\* replaced and the completion is reported
ScanFinal(s) ==
    /\ sc[s].pc = "final"
    /\ LET t == sc[s] IN
        /\ sc' = [sc EXCEPT ![s] =
                    Completed([t EXCEPT !.pc = "done",
                                        !.batches =
                                           IF Remaining(t.batch_results) # << >>
                                           THEN Append(@, Remaining(t.batch_results))
                                           ELSE @],
                              t.found_count)]
        /\ video_files' = t.batch_results
    /\ ui_queue' = SafeQueuePut(ui_queue, "scan_complete")
    /\ complete_order' = Append(complete_order, s)
    /\ UNCHANGED << is_scanning, probes >>
    /\ ScanFrame

\* the file of a record
EntryOf(path) ==
    CHOOSE e \in { Tree(path[1])[k] : k \in 1..Len(Tree(path[1])) } : e.path = path

\* convert_videos, at the record i of the list: a record of unknown format is
\* probed before it is converted, and the result is written into the record
convert_videos_probe(i) ==
    /\ i \in DOMAIN video_files
    /\ video_files[i].format = "Unknown"
    /\ \E outcome \in ProbeOutcomes :
        LET video_info == get_video_info(EntryOf(video_files[i].path), outcome) IN
        /\ video_files' = [video_files EXCEPT ![i].format = video_info.format,
                                              ![i].compatible = video_info.compatible]
        /\ probes' = probes \cup {[ path |-> video_files[i].path, by |-> "convert",
                                    outcome |-> outcome ]}
    /\ UNCHANGED << is_scanning, ui_queue, sc, complete_order >>
    /\ ScanFrame

(***************************************************************************)
(* Spec: one session of the program from construction, with every command  *)
(* and thread of the model and a single conversion run.                    *)
(***************************************************************************)
ConvThread ==
    \/ \E r \in Runs : ConvLoop(r)
    \/ \E r \in Runs : ConvBegin(r)
    \/ \E r \in Runs : ConvCheckExists(r)
    \/ \E r \in Runs : ConvLaunch(r)
    \/ \E r \in Runs : ConvReadLine(r)
    \/ \E r \in Runs : ConvReadEOF(r)

Process ==
    \/ \E r \in Runs : ProcWrite(r)
    \/ \E r \in Runs : ProcExitZero(r)
    \/ \E r \in Runs : ProcExitNonZero(r)

Next ==
    \/ start_conversion(MaxSessionRuns)
    \/ cancel_conversion
    \/ scan_videos
    \/ process_queues
    \/ ConvThread
    \/ Process
    \/ Tick
    \/ \E w \in Runs : conversion_watchdog(w)
    \/ scan_videos_thread

Spec == Init /\ [][Next]_vars

(***************************************************************************)
(* The state after construction, one scan of the source folder and the     *)
(* handling of its completion: the start of the specifications of          *)
(* restarted conversions, in which the folder is not scanned again.        *)
(***************************************************************************)
InitScanned ==
    /\ is_converting = FALSE
    /\ is_scanning = FALSE
    /\ delete_originals = FALSE
    /\ convert_button = TRUE
    /\ cancel_convert_button = FALSE
    /\ originals = Files
    /\ video_files = Discovered
    /\ backups = {}
    /\ outfiles = {}
    /\ conv = [ r \in Runs |-> NoThread ]
    /\ wd = [ r \in Runs |-> "off" ]
    /\ nruns = 0
    /\ idle = 0
    /\ ui_queue = << >>
    /\ scan = "idle"
    /\ status = [ r \in Runs |-> << >> ]
    /\ launched = [ r \in Runs |-> {} ]
    /\ done_events = [ r \in Runs |-> << >> ]
    /\ cancel_seen = [ r \in Runs |-> 0 ]
    /\ stuck_seen = [ r \in Runs |-> -1 ]
    /\ source_folder = "dcim"
    /\ include_compatible = FALSE
    /\ ScannerInit
    /\ LibInit

(***************************************************************************)
(* SpecRestart: conversions started, cancelled and started again, without  *)
(* the passing of time.                                                    *)
(***************************************************************************)
NextRestart ==
    \/ start_conversion(MaxRuns)
    \/ cancel_conversion
    \/ process_queues
    \/ ConvThread
    \/ Process

SpecRestart == InitScanned /\ [][NextRestart]_vars

(***************************************************************************)
(* SpecStuck: conversions that the watchdog finds stuck, and the runs      *)
(* started after it has cancelled them.                                    *)
(***************************************************************************)
NextStuck ==
    \/ start_conversion(MaxRuns)
    \/ process_queues
    \/ ConvThread
    \/ Process
    \/ Tick
    \/ \E w \in Runs : conversion_watchdog(w)

SpecStuck == InitScanned /\ [][NextStuck]_vars

(***************************************************************************)
(* SpecScan: the scanner alone, pointed at any of the source paths, with   *)
(* scans started, cancelled and started again.                             *)
(***************************************************************************)
InitScan ==
    /\ is_converting = FALSE
    /\ is_scanning = FALSE
    /\ delete_originals = FALSE
    /\ convert_button = TRUE
    /\ cancel_convert_button = FALSE
    /\ video_files = << >>
    /\ originals = Files
    /\ backups = {}
    /\ outfiles = {}
    /\ conv = [ r \in Runs |-> NoThread ]
    /\ wd = [ r \in Runs |-> "off" ]
    /\ nruns = 0
    /\ idle = 0
    /\ ui_queue = << >>
    /\ scan = "idle"
    /\ status = [ r \in Runs |-> << >> ]
    /\ launched = [ r \in Runs |-> {} ]
    /\ done_events = [ r \in Runs |-> << >> ]
    /\ cancel_seen = [ r \in Runs |-> 0 ]
    /\ stuck_seen = [ r \in Runs |-> -1 ]
    /\ source_folder \in SourcePaths
    /\ include_compatible \in BOOLEAN
    /\ ScannerInit
    /\ LibInit

ScanThread ==
    \/ \E s \in Scans : ScanStart(s)
    \/ \E s \in Scans : ScanBatch(s)
    \/ \E s \in Scans : ScanCollect(s)
    \/ \E s \in Scans : ScanTimeout(s)
    \/ \E s \in Scans : ScanFinal(s)

NextScan ==
    \/ scan_videos_command(MaxSessionScans)
    \/ dismiss_messagebox
    \/ \E path \in SourcePaths : browse_source(path)
    \/ cancel_scan
    \/ process_queues
    \/ ScanThread
    \/ \E i \in 1..Len(video_files) : convert_videos_probe(i)

SpecScan == InitScan /\ [][NextScan]_vars

(***************************************************************************)
(* SpecRescan: scans cancelled and started again, over the two small       *)
(* folders.                                                                *)
(***************************************************************************)
RescanPaths == {"scenario", "below"}

InitRescan ==
    /\ is_converting = FALSE
    /\ is_scanning = FALSE
    /\ delete_originals = FALSE
    /\ convert_button = TRUE
    /\ cancel_convert_button = FALSE
    /\ video_files = << >>
    /\ originals = Files
    /\ backups = {}
    /\ outfiles = {}
    /\ conv = [ r \in Runs |-> NoThread ]
    /\ wd = [ r \in Runs |-> "off" ]
    /\ nruns = 0
    /\ idle = 0
    /\ ui_queue = << >>
    /\ scan = "idle"
    /\ status = [ r \in Runs |-> << >> ]
    /\ launched = [ r \in Runs |-> {} ]
    /\ done_events = [ r \in Runs |-> << >> ]
    /\ cancel_seen = [ r \in Runs |-> 0 ]
    /\ stuck_seen = [ r \in Runs |-> -1 ]
    /\ source_folder \in RescanPaths
    /\ include_compatible = TRUE
    /\ ScannerInit
    /\ LibInit

NextRescan ==
    \/ scan_videos_command(MaxScans)
    \/ \E path \in RescanPaths : browse_source(path)
    \/ cancel_scan
    \/ process_queues
    \/ ScanThread

SpecRescan == InitRescan /\ [][NextRescan]_vars

(***************************************************************************)
(* LRUCache: get, put, clear and size, statement by statement, each under  *)
(* `with self.lock`.                                                       *)
(***************************************************************************)
\* the application after construction, nothing started: the state of
\* everything but the cache
Constructed ==
    /\ is_converting = FALSE
    /\ is_scanning = FALSE
    /\ delete_originals = FALSE
    /\ convert_button = TRUE
    /\ cancel_convert_button = FALSE
    /\ video_files = << >>
    /\ originals = Files
    /\ backups = {}
    /\ outfiles = {}
    /\ conv = [ r \in Runs |-> NoThread ]
    /\ wd = [ r \in Runs |-> "off" ]
    /\ nruns = 0
    /\ idle = 0
    /\ ui_queue = << >>
    /\ scan = "idle"
    /\ status = [ r \in Runs |-> << >> ]
    /\ launched = [ r \in Runs |-> {} ]
    /\ done_events = [ r \in Runs |-> << >> ]
    /\ cancel_seen = [ r \in Runs |-> 0 ]
    /\ stuck_seen = [ r \in Runs |-> -1 ]
    /\ source_folder = "dcim"
    /\ include_compatible = FALSE
    /\ ScannerInit

\* what no method of the cache changes
CacheFrame ==
    /\ UNCHANGED << is_scanning, video_files, ui_queue >>
    /\ UNCHANGED << ScanVars, ConvVars >>
    /\ UNCHANGED << QueueVars, TickVars, CallVars, StartVars, ViewVars >>

\* deque.remove(key): the first occurrence is taken out
DequeRemove(order, key) ==
    LET i == CHOOSE i \in 1..Len(order) :
                 order[i] = key /\ \A j \in 1..(i - 1) : order[j] # key IN
    SubSeq(order, 1, i - 1) \o SubSeq(order, i + 1, Len(order))

\* cache[key] = value
DictSet(dict, key, value) ==
    [ k \in DOMAIN dict \cup {key} |-> IF k = key THEN value ELSE dict[k] ]

\* del cache[key]
DictDel(dict, key) == [ k \in DOMAIN dict \ {key} |-> dict[k] ]

\* a lock that every thread can take at any time
LockFree_always(c) == TRUE

\* threading.Lock: the lock can be taken when no thread holds it
LockFree(c) == c.lock = 0

\* leaving the with block releases the lock
Released(c) == [c EXCEPT !.lock = 0]

\* a thread enters get, put, clear or size and takes the lock
CacheCall(t, op, key, value) ==
    /\ cw[t].pc = "idle"
    /\ LockFree(video_info_cache)
    /\ video_info_cache' = [video_info_cache EXCEPT !.lock = t]
    /\ cw' = [cw EXCEPT ![t] = [Outside EXCEPT !.pc = op, !.key = key,
                                               !.value = value,
                                               !.keys_before =
                                                  DOMAIN video_info_cache.cache]]
    /\ UNCHANGED << used, last_op, cache_error >>
    /\ CacheFrame

\* the record of the operation of thread t as it returns
Returned(t, op, hit, result) ==
    [ op |-> op, key |-> cw[t].key, value |-> cw[t].value, hit |-> hit,
      keys_before |-> cw[t].keys_before, used_before |-> used, result |-> result ]

\* the order of last use after a use of key
Touched(order, key) ==
    Append(SelectSeq(order, LAMBDA k : k # key), key)

\* a statement of the method raises: the exception leaves the with block
Raise(t) ==
    /\ cache_error' = TRUE
    /\ video_info_cache' = Released(video_info_cache)
    /\ cw' = [cw EXCEPT ![t] = Outside]
    /\ UNCHANGED << used, last_op >>

\* get: `if key in self.cache`, then access_order.remove(key); a miss
\* returns None
CacheGet(t) ==
    /\ cw[t].pc = "get"
    /\ LET c == video_info_cache
           key == cw[t].key IN
       IF key \notin DOMAIN c.cache
       THEN /\ video_info_cache' = Released(c)
            /\ cw' = [cw EXCEPT ![t] = Outside]
            /\ last_op' = Returned(t, "get", FALSE, "None")
            /\ UNCHANGED << used, cache_error >>
       ELSE IF key \notin Range(c.access_order)
       THEN Raise(t)
       ELSE /\ video_info_cache' =
                  [c EXCEPT !.access_order = DequeRemove(@, key)]
            /\ cw' = [cw EXCEPT ![t].pc = "get_append"]
            /\ UNCHANGED << used, last_op, cache_error >>
    /\ CacheFrame

\* a get that leaves the key where it is
MoveToEnd_none(order, key) == order

\* access_order.append(key)
MoveToEnd(order, key) == Append(order, key)

\* get: access_order.append(key); return self.cache[key]
CacheGetAppend(t) ==
    /\ cw[t].pc = "get_append"
    /\ LET c == video_info_cache
           key == cw[t].key IN
       IF key \notin DOMAIN c.cache
       THEN Raise(t)
       ELSE /\ video_info_cache' =
                  Released([c EXCEPT !.access_order = MoveToEnd(@, key)])
            /\ cw' = [cw EXCEPT ![t] = Outside]
            /\ last_op' = Returned(t, "get", TRUE, c.cache[key])
            /\ used' = Touched(used, key)
            /\ UNCHANGED cache_error
    /\ CacheFrame

\* a cache that never finds itself full
AtCapacity_never(c) == FALSE

\* len(self.cache) >= self.maxsize
AtCapacity(c) == Cardinality(DOMAIN c.cache) >= c.maxsize

\* a cache that evicts the key at the right end of the deque
Popped_right(order) == [ oldest |-> order[Len(order)],
                         rest |-> SubSeq(order, 1, Len(order) - 1) ]

\* access_order.popleft()
Popped(order) == [ oldest |-> Head(order), rest |-> Tail(order) ]

\* put: the test of the key and of the size, and the first change of
\* access_order
CachePut(t) ==
    /\ cw[t].pc = "put"
    /\ LET c == video_info_cache
           key == cw[t].key IN
       IF key \in DOMAIN c.cache
       THEN IF key \notin Range(c.access_order)
            THEN Raise(t)
            ELSE /\ video_info_cache' =
                       [c EXCEPT !.access_order = DequeRemove(@, key)]
                 /\ cw' = [cw EXCEPT ![t].pc = "put_update"]
                 /\ UNCHANGED << used, last_op, cache_error >>
       ELSE IF AtCapacity(c)
       THEN IF c.access_order = << >>
            THEN Raise(t)
            ELSE /\ video_info_cache' =
                       [c EXCEPT !.access_order = Popped(@).rest]
                 /\ cw' = [cw EXCEPT ![t].pc = "put_del",
                                     ![t].oldest = Popped(c.access_order).oldest]
                 /\ UNCHANGED << used, last_op, cache_error >>
       ELSE /\ cw' = [cw EXCEPT ![t].pc = "put_insert"]
            /\ UNCHANGED << video_info_cache, used, last_op, cache_error >>
    /\ CacheFrame

\* put of a present key: access_order.append(key); self.cache[key] = value
CachePutUpdate(t) ==
    /\ cw[t].pc = "put_update"
    /\ LET c == video_info_cache
           key == cw[t].key IN
        /\ video_info_cache' =
              Released([c EXCEPT !.access_order = Append(@, key),
                                 !.cache = DictSet(@, key, cw[t].value)])
        /\ cw' = [cw EXCEPT ![t] = Outside]
        /\ last_op' = Returned(t, "put", TRUE, "None")
        /\ used' = Touched(used, key)
        /\ UNCHANGED cache_error
    /\ CacheFrame

\* put of a new key into a full cache: del self.cache[oldest]
CachePutDel(t) ==
    /\ cw[t].pc = "put_del"
    /\ LET c == video_info_cache IN
       IF cw[t].oldest \notin DOMAIN c.cache
       THEN Raise(t)
       ELSE /\ video_info_cache' = [c EXCEPT !.cache = DictDel(@, cw[t].oldest)]
            /\ cw' = [cw EXCEPT ![t].pc = "put_insert"]
            /\ UNCHANGED << used, last_op, cache_error >>
    /\ CacheFrame

\* put of a new key: self.cache[key] = value; access_order.append(key)
CachePutInsert(t) ==
    /\ cw[t].pc = "put_insert"
    /\ LET c == video_info_cache
           key == cw[t].key IN
        /\ video_info_cache' =
              Released([c EXCEPT !.cache = DictSet(@, key, cw[t].value),
                                 !.access_order = Append(@, key)])
        /\ cw' = [cw EXCEPT ![t] = Outside]
        /\ last_op' = Returned(t, "put", FALSE, "None")
        /\ used' = Touched(used, key)
        /\ UNCHANGED cache_error
    /\ CacheFrame

\* clear: self.cache.clear()
CacheClear(t) ==
    /\ cw[t].pc = "clear"
    /\ video_info_cache' = [video_info_cache EXCEPT !.cache = EmptyDict]
    /\ cw' = [cw EXCEPT ![t].pc = "clear_order"]
    /\ UNCHANGED << used, last_op, cache_error >>
    /\ CacheFrame

\* clear: self.access_order.clear()
CacheClearOrder(t) ==
    /\ cw[t].pc = "clear_order"
    /\ video_info_cache' = Released([video_info_cache EXCEPT !.access_order = << >>])
    /\ cw' = [cw EXCEPT ![t] = Outside]
    /\ last_op' = Returned(t, "clear", FALSE, "None")
    /\ used' = << >>
    /\ UNCHANGED cache_error
    /\ CacheFrame

\* size: return len(self.cache)
CacheSize(t) ==
    /\ cw[t].pc = "size"
    /\ video_info_cache' = Released(video_info_cache)
    /\ cw' = [cw EXCEPT ![t] = Outside]
    /\ last_op' = Returned(t, "size", FALSE,
                           Cardinality(DOMAIN video_info_cache.cache))
    /\ UNCHANGED << used, cache_error >>
    /\ CacheFrame

(***************************************************************************)
(* SpecCache: an LRUCache of any of the capacities, called by concurrent   *)
(* threads.                                                                *)
(***************************************************************************)
InitCache ==
    /\ Constructed
    /\ video_info_cache \in { LRUCache(n) : n \in Capacities }
    /\ cw = [ t \in CacheThreads |-> Outside ]
    /\ used = << >>
    /\ last_op = NoOp
    /\ cache_error = FALSE
    /\ QueueInit
    /\ TickInit
    /\ CallInit
    /\ StartInit /\ ViewInit

NextCache ==
    \/ \E t \in CacheThreads, key \in CacheKeys : CacheCall(t, "get", key, "none")
    \/ \E t \in CacheThreads, key \in CacheKeys, value \in CacheValues :
          CacheCall(t, "put", key, value)
    \/ \E t \in CacheThreads : CacheCall(t, "clear", 0, "none")
    \/ \E t \in CacheThreads : CacheCall(t, "size", 0, "none")
    \/ \E t \in CacheThreads : CacheGet(t)
    \/ \E t \in CacheThreads : CacheGetAppend(t)
    \/ \E t \in CacheThreads : CachePut(t)
    \/ \E t \in CacheThreads : CachePutUpdate(t)
    \/ \E t \in CacheThreads : CachePutDel(t)
    \/ \E t \in CacheThreads : CachePutInsert(t)
    \/ \E t \in CacheThreads : CacheClear(t)
    \/ \E t \in CacheThreads : CacheClearOrder(t)
    \/ \E t \in CacheThreads : CacheSize(t)

SpecCache == InitCache /\ [][NextCache]_vars

(***************************************************************************)
(* SafeQueue: put by concurrent producers, get and clear by the consumer.  *)
(***************************************************************************)
\* what no method of the queue changes
QueueFrame ==
    /\ UNCHANGED << is_scanning, video_files, ui_queue >>
    /\ UNCHANGED << ScanVars, ConvVars >>
    /\ UNCHANGED << CacheVars, TickVars, CallVars, StartVars, ViewVars >>

\* a queue that always has room
QueueFull_never(q) == FALSE

\* queue.Queue.put(block=False) raises Full when qsize >= maxsize
QueueFull(q) == Len(q.queue) >= q.maxsize

\* put: self.queue.put(item, block=False): the item is appended and put
\* returns True, or queue.Full is raised at once
QueuePut(t, item) ==
    /\ pw[t].pc = "idle"
    /\ safe_queue.dropped_items < MaxDrops
    /\ IF QueueFull(safe_queue)
       THEN /\ pw' = [pw EXCEPT ![t] = [Idle EXCEPT !.pc = "full", !.item = item]]
            /\ UNCHANGED safe_queue
       ELSE /\ safe_queue' = [safe_queue EXCEPT !.queue = Append(@, item)]
            /\ UNCHANGED pw
    /\ UNCHANGED false_returns
    /\ QueueFrame

\* `with self.lock` of put
CounterLockFree(q) == q.lock = 0

\* put, in the handler of queue.Full: the lock is taken and dropped_items read
QueueDropRead(t) ==
    /\ pw[t].pc = "full"
    /\ CounterLockFree(safe_queue)
    /\ safe_queue' = [safe_queue EXCEPT !.lock = t]
    /\ pw' = [pw EXCEPT ![t].pc = "count", ![t].read = safe_queue.dropped_items]
    /\ UNCHANGED false_returns
    /\ QueueFrame

\* put, in the handler of queue.Full: dropped_items is written, the lock
\* released, and put returns False
QueueDropWrite(t) ==
    /\ pw[t].pc = "count"
    /\ safe_queue' = [safe_queue EXCEPT !.dropped_items = pw[t].read + 1,
                                        !.lock = 0]
    /\ pw' = [pw EXCEPT ![t] = Idle]
    /\ false_returns' = false_returns + 1
    /\ QueueFrame

\* SafeQueue.get(block=False) of the consumer
QueueGet ==
    /\ safe_queue.queue # << >>
    /\ safe_queue' = [safe_queue EXCEPT !.queue = Tail(@)]
    /\ UNCHANGED << pw, false_returns >>
    /\ QueueFrame

\* SafeQueue.clear: get_nowait until the queue is empty
QueueClear ==
    /\ safe_queue.queue # << >>
    /\ safe_queue' = [safe_queue EXCEPT !.queue = << >>]
    /\ UNCHANGED << pw, false_returns >>
    /\ QueueFrame

(***************************************************************************)
(* SpecQueue: a SafeQueue of any of the sizes, its producers and its       *)
(* consumer.                                                               *)
(***************************************************************************)
InitQueue ==
    /\ Constructed
    /\ CacheInit
    /\ TickInit
    /\ CallInit
    /\ StartInit /\ ViewInit
    /\ safe_queue \in { SafeQueue(n) : n \in QueueSizes }
    /\ pw = [ t \in Producers |-> Idle ]
    /\ false_returns = 0

NextQueue ==
    \/ \E t \in Producers, item \in Items : QueuePut(t, item)
    \/ \E t \in Producers : QueueDropRead(t)
    \/ \E t \in Producers : QueueDropWrite(t)
    \/ QueueGet
    \/ QueueClear

SpecQueue == InitQueue /\ [][NextQueue]_vars

(***************************************************************************)
(* process_queues in full: one call (tick) of the consumer, statement by   *)
(* statement, with producers that put events while it runs.                *)
(***************************************************************************)
\* what the consumer and its producers do not change
TickFrame ==
    /\ UNCHANGED << is_scanning, video_files >>
    /\ UNCHANGED << ScanVars, ConvVars >>
    /\ UNCHANGED << CacheVars, QueueVars, CallVars, StartVars, ViewVars >>

\* a background thread puts a log event; the events of a queue are numbered
\* in the order they are put
ProduceLog ==
    /\ produced.log < MaxEvents
    /\ log_queue' = Append(log_queue, << "log", produced.log + 1 >>)
    /\ produced' = [produced EXCEPT !.log = @ + 1]
    /\ UNCHANGED << ui_queue, pq, handled, shutdown_event >>
    /\ TickFrame

\* a background thread puts a display event on the ui_queue
ProduceUi ==
    /\ produced.ui < MaxEvents
    /\ ui_queue' = Append(ui_queue, << "progress", produced.ui + 1 >>)
    /\ produced' = [produced EXCEPT !.ui = @ + 1]
    /\ UNCHANGED << log_queue, pq, handled, shutdown_event >>
    /\ TickFrame

\* the Tk timer fires and process_queues is entered: it returns at once when
\* the shutdown event is set
TickStart ==
    /\ pq.pc = "wait"
    /\ pq' = IF shutdown_event
             THEN [NotStarted EXCEPT !.pc = "stopped"]
             ELSE [NotStarted EXCEPT !.pc = "log"]
    /\ UNCHANGED << ui_queue, log_queue, produced, handled, shutdown_event >>
    /\ TickFrame

\* a consumer that goes on as long as the queue has events
UnderLimit_always(processed) == TRUE

\* the second half of the loop conditions: processed < QUEUE_PROCESS_LIMIT
UnderLimit(processed) == processed < QUEUE_PROCESS_LIMIT

\* one pass of the loop over the log queue, or its end
TickLog ==
    /\ pq.pc = "log"
    /\ IF log_queue # << >> /\ UnderLimit(pq.log_processed)
       THEN /\ log_queue' = Tail(log_queue)
            /\ pq' = [pq EXCEPT !.log_handled = Append(@, Head(log_queue)),
                                !.log_processed = @ + 1]
            /\ handled' = [handled EXCEPT !.log = @ + 1]
       ELSE /\ pq' = [pq EXCEPT !.pc = "ui"]
            /\ UNCHANGED << log_queue, handled >>
    /\ UNCHANGED << ui_queue, produced, shutdown_event >>
    /\ TickFrame

\* one pass of the loop over the ui_queue, or its end
TickUi ==
    /\ pq.pc = "ui"
    /\ IF ui_queue # << >> /\ UnderLimit(pq.ui_processed)
       THEN /\ ui_queue' = Tail(ui_queue)
            /\ pq' = [pq EXCEPT !.ui_handled = Append(@, Head(ui_queue)),
                                !.ui_processed = @ + 1]
            /\ handled' = [handled EXCEPT !.ui = @ + 1]
       ELSE /\ pq' = [pq EXCEPT !.pc = "schedule"]
            /\ UNCHANGED << ui_queue, handled >>
    /\ UNCHANGED << log_queue, produced, shutdown_event >>
    /\ TickFrame

\* the delay of the next call: max(50, UI_UPDATE_INTERVAL // 2) when busy
NextInterval(ui_processed, log_processed) ==
    IF ui_processed >= QUEUE_PROCESS_LIMIT \/ log_processed >= QUEUE_PROCESS_LIMIT
    THEN IF 50 > UI_UPDATE_INTERVAL \div 2 THEN 50 ELSE UI_UPDATE_INTERVAL \div 2
    ELSE UI_UPDATE_INTERVAL

\* the end of process_queues: root.after(next_interval, self.process_queues)
TickSchedule ==
    /\ pq.pc = "schedule"
    /\ pq' = [pq EXCEPT !.pc = IF shutdown_event THEN "stopped" ELSE "wait",
                        !.next_interval =
                            NextInterval(pq.ui_processed, pq.log_processed),
                        !.scheduled = ~shutdown_event]
    /\ UNCHANGED << ui_queue, log_queue, produced, handled, shutdown_event >>
    /\ TickFrame

\* the shutdown event is set: by on_closing between two calls of
\* process_queues, or by signal_handler, which the interpreter runs in the
\* main thread between any two statements
Shutdown ==
    /\ pq.pc # "stopped"
    /\ ~shutdown_event
    /\ shutdown_event' = TRUE
    /\ UNCHANGED << ui_queue, log_queue, pq, produced, handled >>
    /\ TickFrame

(***************************************************************************)
(* SpecTick: the queue consumer and its producers.                         *)
(***************************************************************************)
InitTick ==
    /\ Constructed
    /\ LibInit

NextTick ==
    \/ ProduceLog
    \/ ProduceUi
    \/ TickStart
    \/ TickLog
    \/ TickUi
    \/ TickSchedule
    \/ Shutdown

SpecTick == InitTick /\ [][NextTick]_vars

(***************************************************************************)
(* get_video_info in full: the run of ffprobe, the parsing of what it      *)
(* printed, and the handlers.  A format name is the sequence of the names  *)
(* between its commas; a field that is absent or null is written with a    *)
(* marker.                                                                 *)
(***************************************************************************)
Absent == "<absent>"
Null == "<null>"
StreamTypes == {"video", "audio"}
CodecNames == {"h264", "H264", "hevc", Absent, Null}
Streams == [ codec_type : StreamTypes, codec_name : CodecNames ]
StreamLists == UNION { [ 1..n -> Streams ] : n \in 0..MaxStreams }
\* format.format_name: absent (the empty sequence) or a comma-separated list
FormatNames == { << >>, << "mp4" >>, << "mov", "mp4", "m4a" >>, << "avi" >> }

\* what ffprobe printed: no JSON, a JSON value that is no object, or an object
Garbage == [ kind |-> "garbage", format_name |-> << >>, streams |-> << >> ]
NoObject == [ kind |-> "list", format_name |-> << >>, streams |-> << >> ]
Outputs ==
    {Garbage, NoObject} \cup
    [ kind : {"object"}, format_name : FormatNames, streams : StreamLists ]

\* how subprocess.run ended, and stdout when it returned
ProbeRuns ==
    [ exit : {"zero"}, stdout : Outputs ] \cup
    [ exit : {"nonzero", "timeout", "oserror"}, stdout : {Garbage} ]

\* str.upper and str.lower on the names of the model
StrUpper(str) ==
    CASE str = "mp4" -> "MP4" [] str = "mov" -> "MOV" [] str = "avi" -> "AVI"
      [] str = "Unknown" -> "UNKNOWN" [] OTHER -> str

StrLower(str) ==
    CASE str = "H264" -> "h264" [] str = "Unknown" -> "unknown" [] OTHER -> str

\* the result returned by the handlers
Sentinel(format) == [ format |-> format, compatible |-> FALSE, codec |-> "Unknown" ]

\* the loop over info['streams']: codec_name of the first video stream
RECURSIVE FirstVideoCodec(_)
FirstVideoCodec(streams) ==
    IF streams = << >> THEN "Unknown"
    ELSE IF Head(streams).codec_type = "video"
    THEN IF Head(streams).codec_name = Absent THEN "Unknown"
         ELSE Head(streams).codec_name
    ELSE FirstVideoCodec(Tail(streams))

\* the body of the try of get_video_info: the value it returns, or the
\* exception raised in it
ProbeBody(run) ==
    LET Raised(exc) == [ raised |-> exc, result |-> NoResult ]
        info == run.stdout
        format_name == StrUpper(IF info.format_name = << >> THEN "Unknown"
                                ELSE Head(info.format_name))
        codec == FirstVideoCodec(info.streams) IN
    CASE run.exit = "timeout" -> Raised("TimeoutExpired")
      [] run.exit = "nonzero" -> Raised("CalledProcessError")
      [] run.exit = "oserror" -> Raised("FileNotFoundError")
      [] OTHER ->
           IF info.kind = "garbage" THEN Raised("JSONDecodeError")
           ELSE IF info.kind # "object" THEN Raised("AttributeError")
           ELSE IF format_name = "MP4" /\ codec = Null
           THEN Raised("AttributeError")
           ELSE [ raised |-> "none",
                  result |-> [ format |-> format_name,
                               compatible |-> format_name = "MP4"
                                              /\ StrLower(codec) = "h264",
                               codec |-> codec ] ]

\* handlers that name the exceptions they catch
IsException_named(exc) == exc \in {"TimeoutExpired", "JSONDecodeError"}

\* except Exception: every exception of the body is one
IsException(exc) ==
    exc \in {"TimeoutExpired", "CalledProcessError", "FileNotFoundError",
             "JSONDecodeError", "AttributeError"}

\* get_video_info: the body and its three handlers
GetVideoInfo(run) ==
    LET body == ProbeBody(run) IN
    IF body.raised = "none" THEN body
    ELSE IF body.raised = "TimeoutExpired"
    THEN [ raised |-> "none", result |-> Sentinel("Timeout") ]
    ELSE IF body.raised = "JSONDecodeError" \/ IsException(body.raised)
    THEN [ raised |-> "none", result |-> Sentinel("Error") ]
    ELSE body

\* what a call of the probe does not change
ProbeFrame ==
    /\ UNCHANGED << is_scanning, video_files, ui_queue >>
    /\ UNCHANGED << ScanVars, ConvVars >>
    /\ UNCHANGED << CacheVars, QueueVars, TickVars, StartVars, ViewVars >>
    /\ UNCHANGED << quality_var, resolution_var, cmd >>

\* a call of get_video_info
CallGetVideoInfo ==
    /\ probe.raised = "none"
    /\ LET out == GetVideoInfo(probe.run) IN
       probe' = [probe EXCEPT !.called = "get_video_info",
                              !.result = out.result, !.raised = out.raised]
    /\ ProbeFrame

\* a call of get_video_info_cached: the entry of the path when the cache
\* has one, the probe and a put otherwise
CallGetVideoInfoCached ==
    /\ probe.raised = "none"
    /\ IF probe.cached # NoResult
       THEN probe' = [probe EXCEPT !.called = "hit", !.result = probe.cached]
       ELSE LET out == GetVideoInfo(probe.run) IN
            probe' = [probe EXCEPT !.called = "miss",
                                   !.result = out.result, !.raised = out.raised,
                                   !.cached = out.result]
    /\ ProbeFrame

\* the cache is cleared (cancel, rescan, memory pressure) or the entry evicted
ForgetVideoInfo ==
    /\ probe.cached # NoResult
    /\ probe' = [probe EXCEPT !.cached = NoResult]
    /\ ProbeFrame

(***************************************************************************)
(* SpecProbe: the probe of one file, for every way ffprobe can end.        *)
(***************************************************************************)
InitProbe ==
    /\ Constructed
    /\ CacheInit /\ QueueInit /\ TickInit /\ StartInit /\ ViewInit
    /\ probe \in { [NoProbe EXCEPT !.run = run] : run \in ProbeRuns }
    /\ quality_var = "medium"
    /\ resolution_var = "1920x1080"
    /\ cmd = NoCommand

NextProbe ==
    \/ CallGetVideoInfo
    \/ CallGetVideoInfoCached
    \/ ForgetVideoInfo

SpecProbe == InitProbe /\ [][NextProbe]_vars

(***************************************************************************)
(* build_ffmpeg_command.  Arguments are strings; the number ffmpeg reads   *)
(* from the -crf argument is given by Number.                              *)
(***************************************************************************)
\* the values of the quality combobox, and what a settings file can hold
QualityNames == {"high", "medium", "low"}
Qualities == QualityNames \cup {"ultra", "High", ""}
RESOLUTION_OPTIONS == << "Original", "3840x2160", "1920x1080", "1280x720", "854x480" >>
Resolutions == Range(RESOLUTION_OPTIONS) \cup {"1x2x3", "auto"}
\* input_file and output_file of a call
CommandFiles == { << "dcim/a.mov", "out/a.mp4" >>, << "dcim/b.mov", "out/b.mp4" >> }

QUALITY_PRESETS == [ high |-> "18", medium |-> "23", low |-> "28" ]

\* a command builder with one rate-control value for every quality
Preset_flat(quality) == "23"

\* QUALITY_PRESETS.get(quality, '23')
Preset(quality) ==
    IF quality \in DOMAIN QUALITY_PRESETS THEN QUALITY_PRESETS[quality] ELSE "23"

\* the decimal number written by a -crf argument
Number(str) == CASE str = "18" -> 18 [] str = "23" -> 23 [] str = "28" -> 28

\* the -vf argument for a resolution: res.split('x') gives width and height,
\* or raises ValueError on more or fewer than two parts
ScaleFilter(res) ==
    CASE res = "3840x2160" ->
           << "-vf", "scale=3840:2160:force_original_aspect_ratio=decrease" >>
      [] res = "1920x1080" ->
           << "-vf", "scale=1920:1080:force_original_aspect_ratio=decrease" >>
      [] res = "1280x720" ->
           << "-vf", "scale=1280:720:force_original_aspect_ratio=decrease" >>
      [] res = "854x480" ->
           << "-vf", "scale=854:480:force_original_aspect_ratio=decrease" >>
      [] OTHER -> << >>

\* build_ffmpeg_command: the arguments, in order
build_ffmpeg_command(input_file, output_file, quality, res) ==
    << "ffmpeg", "-i", input_file, "-y",
       "-c:v", "libx264", "-c:a", "aac", "-profile:v", "high",
       "-level", "4.0", "-pix_fmt", "yuv420p",
       "-crf", Preset(quality) >>
    \o ScaleFilter(res)
    \o << "-ar", "44100", "-ab", "128k", "-movflags", "+faststart", output_file >>

\* what the command builder and the option widgets do not change
CommandFrame ==
    /\ UNCHANGED << is_scanning, video_files, ui_queue >>
    /\ UNCHANGED << ScanVars, ConvVars >>
    /\ UNCHANGED << CacheVars, QueueVars, TickVars, StartVars, ViewVars >>
    /\ UNCHANGED probe

\* the user picks a quality in the read-only combobox
select_quality(quality) ==
    /\ quality_var' = quality
    /\ UNCHANGED << resolution_var, cmd >>
    /\ CommandFrame

\* the user picks a resolution in the read-only combobox
select_resolution(res) ==
    /\ resolution_var' = res
    /\ UNCHANGED << quality_var, cmd >>
    /\ CommandFrame

\* convert_single_video builds the command of a file; crf_seen records every
\* quality setting with the number its command carried
BuildCommand(input_file, output_file) ==
    /\ LET args == build_ffmpeg_command(input_file, output_file,
                                        quality_var, resolution_var)
           i == CHOOSE i \in 1..Len(args) : args[i] = "-crf" IN
       cmd' = [ quality |-> quality_var, args |-> args,
                crf_seen |-> cmd.crf_seen
                             \cup { << quality_var, Number(args[i + 1]) >> } ]
    /\ UNCHANGED << quality_var, resolution_var >>
    /\ CommandFrame

(***************************************************************************)
(* SpecCommand: commands built under every setting.                        *)
(***************************************************************************)
InitCommand ==
    /\ Constructed
    /\ CacheInit /\ QueueInit /\ TickInit /\ StartInit /\ ViewInit
    /\ probe = NoProbe
    /\ quality_var \in Qualities
    /\ resolution_var \in Resolutions
    /\ cmd = NoCommand

NextCommand ==
    \/ \E quality \in QualityNames : select_quality(quality)
    \/ \E res \in Range(RESOLUTION_OPTIONS) : select_resolution(res)
    \/ \E files \in CommandFiles : BuildCommand(files[1], files[2])

SpecCommand == InitCommand /\ [][NextCommand]_vars

(***************************************************************************)
(* The start of the application: __init__ calls check_ffmpeg before the    *)
(* window takes any command.                                               *)
(***************************************************************************)
\* how running a tool with -version ends on this machine
ToolStates == {"ok", "missing", "hangs"}

\* the tools check_ffmpeg runs: subprocess.run(['ffmpeg', '-version'], ...)
ToolsChecked(installed) == {installed.ffmpeg}

\* check_ffmpeg: goes on when the tools it runs answer; shows an error dialog
\* and calls sys.exit(1) otherwise
check_ffmpeg ==
    /\ app = "starting"
    /\ IF ToolsChecked(tools) = {"ok"}
       THEN /\ app' = "running"
            /\ UNCHANGED messagebox
       ELSE /\ app' = "exited"
            /\ messagebox' = IF "hangs" \in ToolsChecked(tools)
                             THEN "FFmpeg check timed out. Please ensure FFmpeg is properly installed."
                             ELSE "FFmpeg not found. Download from https://ffmpeg.org/download.html and add to PATH."
    /\ UNCHANGED << is_scanning, video_files, ui_queue, tools >>
    /\ UNCHANGED << source_folder, include_compatible, sc, nscans, probes,
                    complete_order >>
    /\ UNCHANGED << ConvVars, CacheVars, QueueVars, TickVars, CallVars, ViewVars >>

(***************************************************************************)
(* SpecStartup: the start on a machine with or without the tools, and the  *)
(* scans of the running application.                                       *)
(***************************************************************************)
InitStartup ==
    /\ is_converting = FALSE
    /\ is_scanning = FALSE
    /\ delete_originals = FALSE
    /\ convert_button = TRUE
    /\ cancel_convert_button = FALSE
    /\ video_files = << >>
    /\ originals = Files
    /\ backups = {}
    /\ outfiles = {}
    /\ conv = [ r \in Runs |-> NoThread ]
    /\ wd = [ r \in Runs |-> "off" ]
    /\ nruns = 0
    /\ idle = 0
    /\ ui_queue = << >>
    /\ scan = "idle"
    /\ status = [ r \in Runs |-> << >> ]
    /\ launched = [ r \in Runs |-> {} ]
    /\ done_events = [ r \in Runs |-> << >> ]
    /\ cancel_seen = [ r \in Runs |-> 0 ]
    /\ stuck_seen = [ r \in Runs |-> -1 ]
    /\ source_folder \in SourcePaths
    /\ include_compatible \in BOOLEAN
    /\ ScannerInit
    /\ CacheInit /\ QueueInit /\ TickInit /\ CallInit /\ ViewInit
    /\ tools \in [ ffmpeg : ToolStates, ffprobe : ToolStates ]
    /\ app = "starting"

NextStartup ==
    \/ check_ffmpeg
    \/ app = "running" /\ NextScan

SpecStartup == InitStartup /\ [][NextStartup]_vars

(***************************************************************************)
(* The handler of the per-file try of convert_videos.                      *)
(***************************************************************************)
\* a handler that emits the status and leaves the failed count as it is
ConvRaise_uncounted(r) ==
    /\ conv[r].pc = "exists"
    /\ conv' = [conv EXCEPT ![r] = NextVideo(conv[r])]
    /\ status' = [status EXCEPT ![r][conv[r].processed + 1] = "Error"]
    /\ ConvFrame
    /\ UNCHANGED << originals, backups, outfiles, idle, ui_queue, launched,
                    done_events >>

\* a statement of the iteration raises (output_file.exists() on an output
\* folder that cannot be read): the handler counts the file as failed and
\* emits the status 'Error'
ConvRaise(r) ==
    /\ conv[r].pc = "exists"
    /\ conv' = [conv EXCEPT ![r] =
                  NextVideo([conv[r] EXCEPT !.failed = conv[r].failed + 1])]
    /\ status' = [status EXCEPT ![r][conv[r].processed + 1] = "Error"]
    /\ ConvFrame
    /\ UNCHANGED << originals, backups, outfiles, idle, ui_queue, launched,
                    done_events >>

(***************************************************************************)
(* SpecFault: one conversion run in which an iteration can raise.          *)
(***************************************************************************)
NextFault ==
    \/ start_conversion(MaxSessionRuns)
    \/ cancel_conversion
    \/ process_queues
    \/ ConvThread
    \/ Process
    \/ \E r \in Runs : ConvRaise(r)

SpecFault == InitScanned /\ [][NextFault]_vars

(***************************************************************************)
(* SpecLive: the scanner with the Clear Caches button of the performance   *)
(* window, the consumer and the scan threads being scheduled fairly.       *)
(***************************************************************************)
\* clear_caches of show_performance: the cache and the two queues are emptied
clear_caches ==
    /\ messagebox = "none"
    /\ ui_queue # << >> \/ log_queue # << >>
    /\ video_info_cache' = [video_info_cache EXCEPT !.cache = EmptyDict,
                                                    !.access_order = << >>]
    /\ log_queue' = << >>
    /\ ui_queue' = << >>
    /\ UNCHANGED << cw, used, last_op, cache_error >>
    /\ UNCHANGED << pq, produced, handled, shutdown_event >>
    /\ UNCHANGED << is_scanning, video_files >>
    /\ UNCHANGED << ScanVars, ConvVars, QueueVars, CallVars, StartVars, ViewVars >>

NextLive ==
    \/ NextScan
    \/ clear_caches

SpecLive ==
    /\ InitScan
    /\ [][NextLive]_vars
    /\ WF_vars(process_queues)
    /\ WF_vars(ScanThread)

(***************************************************************************)
(* SpecTwins: one conversion run over two records that differ in their     *)
(* extension only, into an empty output folder.                            *)
(***************************************************************************)
\* the records of a folder that holds a.mov and a.avi
Twins == << [stem |-> "a", ext |-> "mov"], [stem |-> "a", ext |-> "avi"] >>

InitTwins ==
    /\ is_converting = FALSE
    /\ is_scanning = FALSE
    /\ delete_originals = FALSE
    /\ convert_button = TRUE
    /\ cancel_convert_button = FALSE
    /\ originals = Range(Twins)
    /\ video_files = Twins
    /\ backups = {}
    /\ outfiles = {}
    /\ conv = [ r \in Runs |-> NoThread ]
    /\ wd = [ r \in Runs |-> "off" ]
    /\ nruns = 0
    /\ idle = 0
    /\ ui_queue = << >>
    /\ scan = "idle"
    /\ status = [ r \in Runs |-> << >> ]
    /\ launched = [ r \in Runs |-> {} ]
    /\ done_events = [ r \in Runs |-> << >> ]
    /\ cancel_seen = [ r \in Runs |-> 0 ]
    /\ stuck_seen = [ r \in Runs |-> -1 ]
    /\ source_folder = "dcim"
    /\ include_compatible = FALSE
    /\ ScannerInit
    /\ LibInit

NextTwins ==
    \/ start_conversion(MaxSessionRuns)
    \/ cancel_conversion
    \/ process_queues
    \/ ConvThread
    \/ Process

SpecTwins == InitTwins /\ [][NextTwins]_vars

(***************************************************************************)
(* The displayed list (video_tree): the rows the display events of a scan  *)
(* insert, the column sort, the double click on a row and the status       *)
(* updates of a conversion, which address a row by its position.           *)
(***************************************************************************)
\* the tick and the blank of the Select column
Ticked == "Y"
Blank == ""

\* an argument of update_tree_item that is left at None
None == "None"

\* tree_values of process_video_file: the row of a record
Row(record) ==
    [ path |-> record.path, size |-> record.size, format |-> record.format,
      select |-> Ticked, status |-> "Ready" ]

\* handle_batch_tree_update: one row per record of the event, at the end
handle_batch_tree_update(tree, data) ==
    tree \o [ k \in DOMAIN data |-> Row(data[k]) ]

\* update_tree_item: the row at children[index], if there is one, takes the
\* values that are not None
update_tree_item(tree, index, select, new_status) ==
    IF index < Len(tree)
    THEN [tree EXCEPT ![index + 1] =
            [@ EXCEPT !.select = IF select # None THEN select ELSE @,
                      !.status = IF new_status # None THEN new_status ELSE @]]
    ELSE tree

\* the display events the thread of scan s has put so far, in the order it
\* put them: clear_tree at its start and one batch_tree_update per batch
TreeEvents(s) ==
    IF sc[s].pc \in {"idle", "start"}
    THEN << >>
    ELSE << << "clear_tree", << >> >> >> \o
         [ b \in DOMAIN sc[s].batches |-> << "batch_tree_update", sc[s].batches[b] >> ]

\* process_ui_message, for the events that change the displayed list
process_tree_message(tree, msg) ==
    IF msg[1] = "clear_tree" THEN << >>
    ELSE IF msg[1] = "batch_tree_update" THEN handle_batch_tree_update(tree, msg[2])
    ELSE tree

RECURSIVE HandleTree(_, _)
HandleTree(tree, msgs) ==
    IF msgs = << >> THEN tree
    ELSE HandleTree(process_tree_message(tree, Head(msgs)), Tail(msgs))

\* the scan whose display events are the oldest of the ui_queue: the events
\* of a scan wait behind those of the scans started before it
Oldest(s) ==
    /\ tree_seen[s] < Len(TreeEvents(s))
    /\ \A o \in Scans : o < s => tree_seen[o] = Len(TreeEvents(o))

\* process_queues, for the display events of the ui_queue: a call handles
\* the oldest ones, at most QUEUE_PROCESS_LIMIT of them
process_tree_events ==
    \E s \in Scans :
        /\ Oldest(s)
        /\ \E k \in 1..Min(Len(TreeEvents(s)) - tree_seen[s], QUEUE_PROCESS_LIMIT) :
            /\ video_tree' = HandleTree(video_tree,
                                SubSeq(TreeEvents(s), tree_seen[s] + 1, tree_seen[s] + k))
            /\ tree_seen' = [tree_seen EXCEPT ![s] = @ + k]
        /\ UNCHANGED << is_scanning, video_files, ui_queue, quit_dialog >>
        /\ UNCHANGED << ScanVars, ConvVars >>
        /\ UNCHANGED << CacheVars, QueueVars, TickVars, CallVars, StartVars >>

\* the columns whose heading calls sort_tree
SortColumns == {"File", "Size", "Format"}

\* the names of the files and the formats, in the order of str comparison
NameOrder == << "a", "b", "c", "d", "e", "g", "notes", "s" >>
FormatOrder == << "AVI", "Error", "MATROSKA", "MOV", "MP4", "Timeout", "Unknown" >>

\* the place of a string in a list of strings
Rank(order, str) == CHOOSE k \in DOMAIN order : order[k] = str

\* the key sort_tree gives a row: the number for Size, the text otherwise
SortKey(row, column) ==
    IF column = "Size" THEN row.size
    ELSE IF column = "File" THEN Rank(NameOrder, row.path[2])
    ELSE Rank(FormatOrder, row.format)

\* the row put behind the rows of a sorted list whose key is not larger
RECURSIVE InsertRow(_, _, _)
InsertRow(rows, row, column) ==
    IF rows = << >> THEN << row >>
    ELSE IF SortKey(Head(rows), column) <= SortKey(row, column)
    THEN << Head(rows) >> \o InsertRow(Tail(rows), row, column)
    ELSE << row >> \o rows

\* list.sort by the key: rows of equal keys keep their order
RECURSIVE SortRows(_, _)
SortRows(rows, column) ==
    IF rows = << >> THEN << >>
    ELSE InsertRow(SortRows(SubSeq(rows, 1, Len(rows) - 1), column),
                   rows[Len(rows)], column)

\* sort_tree: the rows are moved into the order of the column; the record
\* list is not touched
sort_tree(column) ==
    /\ video_tree' = SortRows(video_tree, column)
    /\ UNCHANGED << is_scanning, video_files, ui_queue, tree_seen, quit_dialog >>
    /\ UNCHANGED << ScanVars, ConvVars >>
    /\ UNCHANGED << CacheVars, QueueVars, TickVars, CallVars, StartVars >>

\* toggle_video_selection, on a double click on the row at position item:
\* the record at the index of the row is toggled and the row at that index
\* shows the new value
toggle_video_selection(item) ==
    /\ item \in DOMAIN video_tree
    /\ LET index == item - 1 IN
       IF index < Len(video_files)
       THEN /\ video_files' = [video_files EXCEPT ![index + 1].selected = ~@]
            /\ video_tree' = update_tree_item(video_tree, index,
                                 IF ~video_files[index + 1].selected
                                 THEN Ticked ELSE Blank, None)
       ELSE UNCHANGED << video_files, video_tree >>
    /\ UNCHANGED << is_scanning, ui_queue, tree_seen, quit_dialog >>
    /\ UNCHANGED << ScanVars, ConvVars >>
    /\ UNCHANGED << CacheVars, QueueVars, TickVars, CallVars, StartVars >>

\* the index convert_videos looks up for a record: list.index, the first
\* position that holds an equal record
IndexOf(video) == (CHOOSE k \in DOMAIN video_files :
                      /\ video_files[k] = video
                      /\ \A j \in 1..(k - 1) : video_files[j] # video) - 1

\* the update_tree event convert_videos puts for the selected record i, as
\* process_ui_message handles it: the row at the index of the record takes
\* the status
update_tree(i, new_status) ==
    /\ i \in DOMAIN video_files
    /\ video_files[i].selected
    /\ video_tree' = update_tree_item(video_tree, IndexOf(video_files[i]), None, new_status)
    /\ UNCHANGED << is_scanning, video_files, ui_queue, tree_seen, quit_dialog >>
    /\ UNCHANGED << ScanVars, ConvVars >>
    /\ UNCHANGED << CacheVars, QueueVars, TickVars, CallVars, StartVars >>

(***************************************************************************)
(* SpecTree: a scan of a folder of three videos, with the displayed list   *)
(* sorted, double-clicked and updated.                                     *)
(***************************************************************************)
InitTree ==
    /\ InitScan
    /\ source_folder = "mixed"

NextTree ==
    \/ scan_videos_command(MaxSessionScans)
    \/ process_queues
    \/ ScanThread
    \/ process_tree_events
    \/ \E column \in SortColumns : sort_tree(column)
    \/ \E item \in DOMAIN video_tree : toggle_video_selection(item)
    \/ \E i \in DOMAIN video_files : update_tree(i, "Converting")

SpecTree == InitTree /\ [][NextTree]_vars

(***************************************************************************)
(* Closing the application: on_closing, called for the close button of the *)
(* window and by signal_handler for SIGINT and SIGTERM.                     *)
(***************************************************************************)
\* the answers to "Operations in progress. Quit anyway?"
Answers == {"ok", "cancel"}

\* on_closing with the answer the user gives if asked, signalled telling
\* whether signal_handler has set the shutdown event before calling it.
\* With an operation in progress and the answer cancel it returns; otherwise
\* it sets the shutdown event, clears the two flags, joins the threads for at
\* most 5 s each, empties the cache and the queues and destroys the window.
Close(answer, signalled) ==
    /\ app = "running"
    /\ IF (is_converting \/ is_scanning) /\ answer = "cancel"
       THEN /\ quit_dialog' = "declined"
            /\ shutdown_event' = (shutdown_event \/ signalled)
            /\ UNCHANGED << is_converting, is_scanning, cancel_seen,
                            video_info_cache, log_queue, ui_queue, app >>
       ELSE /\ quit_dialog' = IF is_converting \/ is_scanning
                              THEN "confirmed" ELSE "unasked"
            /\ shutdown_event' = TRUE
            /\ is_converting' = FALSE
            /\ is_scanning' = FALSE
            /\ cancel_seen' = MarkCancel
            /\ video_info_cache' = [video_info_cache EXCEPT !.cache = EmptyDict,
                                                            !.access_order = << >>]
            /\ log_queue' = << >>
            /\ ui_queue' = << >>
            /\ app' = "exited"
    /\ UNCHANGED << delete_originals, convert_button, cancel_convert_button,
                    video_files, originals, backups, outfiles, conv, wd, nruns,
                    idle, scan, status, launched, done_events, stuck_seen >>
    /\ UNCHANGED << cw, used, last_op, cache_error >>
    /\ UNCHANGED << pq, produced, handled, tools, video_tree, tree_seen >>
    /\ UNCHANGED << ScanVars, QueueVars, CallVars >>

\* the close button of the window: WM_DELETE_WINDOW calls on_closing
on_closing(answer) == Close(answer, FALSE)

\* SIGINT or SIGTERM: the shutdown event is set, then on_closing is called
signal_handler(answer) == Close(answer, TRUE)

\* a call of process_queues that finds the shutdown event unset: the events
\* are handled and the next call is scheduled
ConsumerTick ==
    /\ app = "running"
    /\ pq.pc = "wait"
    /\ ~shutdown_event
    /\ process_queues

\* a call of process_queues that finds the shutdown event set: it returns
\* at once and schedules no further call
ConsumerStop ==
    /\ app = "running"
    /\ shutdown_event
    /\ TickStart

(***************************************************************************)
(* SpecClose: one conversion run and scans of the folder, with requests to *)
(* close the window arriving at any time, by the close button or a signal. *)
(***************************************************************************)
NextClose ==
    \/ app = "running" /\ start_conversion(MaxSessionRuns)
    \/ app = "running" /\ scan_videos
    \/ app = "running" /\ scan_videos_thread
    \/ app = "running" /\ ConvThread
    \/ app = "running" /\ Process
    \/ ConsumerTick
    \/ ConsumerStop
    \/ \E answer \in Answers : on_closing(answer)
    \/ \E answer \in Answers : signal_handler(answer)

SpecClose == InitScanned /\ [][NextClose]_vars

(***************************************************************************)
(* The claims.                                                             *)
(***************************************************************************)
\* the statuses after which a record is not touched again by its run
Terminal == {"Skipped", "Converted", "Failed"}

\* the position in its selection of the record run r is at
Pos(r) == conv[r].processed + 1

\* run r is in the iteration of a record: it has a current record
InIteration(r) == conv[r].pc \in {"begin", "exists", "single", "readline"}

\* C1: in a conversion run, a selected record whose destination file exists
\* when its turn comes is reported Skipped and counted as skipped, is never
\* counted as failed or successful, and no transcode process is launched for
\* it.
C1_ExistingDestinationSkipped ==
    [][ \A r \in Runs :
          ( /\ conv[r].pc \in {"begin", "exists"}
            /\ conv'[r] # conv[r]
            /\ DestinationExists(Video(r)) )
          => /\ conv'[r].failed = conv[r].failed
             /\ conv'[r].successful = conv[r].successful
             /\ launched'[r] = launched[r]
             /\ conv'[r].processed # conv[r].processed
                  => /\ conv'[r].skipped = conv[r].skipped + 1
                     /\ status'[r][Pos(r)] = "Skipped" ]_vars

\* C2: at most one thread executing convert_videos is alive, and at most one
\* transcode process is running.
C2_OneConversionAtATime ==
    /\ Cardinality({ r \in Runs : Alive(r) }) <= 1
    /\ Cardinality({ r \in Runs : conv[r].proc = "running" }) <= 1

C4_ScanExcludesConversion ==
    ~ (scan = "work" /\ \E r \in Runs : Alive(r))

\* C5: when the transcode process of a record has exited with a non-zero
\* code, the record is reported Failed, the failed count of the run grows by
\* exactly 1 and no other count grows; and a record reported Failed is never
\* reported anything else afterwards.
C5_NonZeroExitFailed ==
    [][ \A r \in Runs :
          /\ ( conv[r].proc = "exit1" /\ conv'[r] # conv[r] )
               => /\ status'[r][Pos(r)] = "Failed"
                  /\ conv'[r].failed = conv[r].failed + 1
                  /\ conv'[r].successful = conv[r].successful
                  /\ conv'[r].skipped = conv[r].skipped
                  /\ conv'[r].processed = conv[r].processed + 1
          /\ \A i \in DOMAIN status[r] :
               status[r][i] = "Failed" => status'[r][i] = "Failed" ]_vars

\* C5 witness: the last process of a run exited with a non-zero code and the
\* record it was transcoding is Failed
C5_FailedAfterNonZeroExit ==
    \E r \in Runs :
        /\ conv[r].returncode = "exit1"
        /\ conv[r].processed >= 1
        /\ status[r][conv[r].processed] = "Failed"
        /\ conv[r].failed = 1

\* C6: no output file is at the destination of a record that a run reports
\* Failed.
C6_NoOutputAfterFailure ==
    \A r \in Runs : \A i \in DOMAIN status[r] :
        status[r][i] = "Failed" => ~ DestinationExists(conv[r].selected[i])

\* C7: an original is removed only in the step in which a run with
\* delete-originals enabled reports its record Converted and counts it as
\* successful, and only with its backup copy in place; so every file of the
\* folder is there as the original or as its backup.
C7_DeleteOnlyAfterBackup ==
    [][ /\ \A f \in originals \ originals' :
             /\ f \in backups'
             /\ delete_originals
             /\ \E r \in Runs :
                   /\ InIteration(r)
                   /\ Video(r) = f
                   /\ conv'[r].successful = conv[r].successful + 1
                   /\ status'[r][Pos(r)] = "Converted"
        /\ \A f \in Files : f \in originals' \/ f \in backups' ]_vars

\* C7 witness: an original has been removed and its backup is in place
C7_DeletedWithBackup ==
    \E f \in Files : f \notin originals /\ f \in backups

\* C8: when the cancellation flag was set while run r was transcoding the
\* record at position cancel_seen[r], that record is still being transcoded
\* or Failed, and no later record of the run has been started.
C8_CancelStopsRun ==
    \A r \in Runs :
        cancel_seen[r] > 0
        => /\ status[r][cancel_seen[r]] \in {"Converting", "Failed"}
           /\ \A i \in DOMAIN status[r] :
                i > cancel_seen[r] => status[r][i] = "none" /\ i \notin launched[r]

\* C9: after a watchdog has cancelled the pipeline as stuck, run r has begun
\* no file beyond the stuck_seen[r] files it had begun by then.
C9_NoFileAfterStuck ==
    \A r \in Runs : stuck_seen[r] >= 0 => Begun(r) <= stuck_seen[r]

\* C10: a run has produced no conversion_done event while it is going on,
\* and exactly one, carrying its successful, failed and skipped counts, once
\* it has ended.
C10_DoneReportedOnce ==
    \A r \in Runs :
        done_events[r] =
            IF conv[r].pc = "done"
            THEN << << conv[r].successful, conv[r].failed, conv[r].skipped >> >>
            ELSE << >>

\* C11: every progress value a run emits equals the percentage of the files
\* of its selection it has finished by then; so the value 100 is emitted only
\* when all of them are finished.
C11_ProgressIsProcessedOfTotal ==
    [][ \A r \in Runs :
          conv'[r].progress # conv[r].progress
          => conv'[r].progress =
                Percent(conv'[r].processed, Len(conv'[r].selected)) ]_vars

\* the records a scan thread has produced: those of its emitted batches and
\* those of its result list
Produced(s) ==
    Range(sc[s].batch_results) \cup
    UNION { Range(sc[s].batches[k]) : k \in DOMAIN sc[s].batches }

\* the extension of the file of a record
Suffix(record) == record.path[3]

\* C12: every record a scan produces, in every emitted batch and in the final
\* record list, refers to a file whose extension, lower-cased, is in
\* VIDEO_EXTENSIONS.
C12_RecordsHaveVideoExtension ==
    /\ \A s \in Scans : \A record \in Produced(s) :
          Lower(Suffix(record)) \in VIDEO_EXTENSIONS
    /\ \A i \in DOMAIN video_files :
          Lower(Suffix(video_files[i])) \in VIDEO_EXTENSIONS

\* C12 witness: a finished scan of a folder that holds a text file, a directory
\* named like a video and a video with an upper-case extension has emitted the
\* record of that video, and the record is in the final list
C12_UpperCaseExtensionRecorded ==
    \E s \in Scans :
        /\ sc[s].pc = "done"
        /\ sc[s].source = "mixed"
        /\ \E k \in DOMAIN sc[s].batches : \E record \in Range(sc[s].batches[k]) :
              /\ Suffix(record) = << ".", "M", "O", "V" >>
              /\ \E i \in DOMAIN video_files : video_files[i] = record

\* a scan that has returned, that was never cancelled and that met no error
Nominal(s) ==
    /\ sc[s].pc = "done"
    /\ sc[s].faults = 0
    /\ ~sc[s].saw_cancel
    /\ sc[s].cancelled_at = -1

\* the number of records of a list that refer to the file entry
Records(list, entry) ==
    Cardinality({ i \in DOMAIN list : list[i].path = entry.path })

\* the files of a folder a scan has to look at: the regular files with an
\* extension of the allow-list
Candidate(entry) == entry.is_file /\ Lower(entry.suffix) \in VIDEO_EXTENSIONS

\* the probe of the scan reports the file as compatible, include-compatible
\* being off
SkippedAsCompatible(entry) ==
    /\ ~include_compatible
    /\ entry.size < 50 * 1024 * 1024
    /\ entry.container = "MP4" /\ entry.codec = "h264"

\* the entries of the folder a scan has traversed
Entries(s) == Range(Tree(sc[s].source))

OnlyBMov(folder) ==
    \A s \in Scans :
        (Nominal(s) /\ sc[s].source = folder /\ ~include_compatible) =>
            /\ Len(sc[s].batch_results) = 1
            /\ sc[s].batch_results[1].path = << folder, "b", << ".", "m", "o", "v" >> >>

\* C14 as stated: the scan of a source with a.mp4 (50MB, H.264 in MP4) and
\* b.mov (30MB), include-compatible off, yields exactly the record of b.mov.
C14_ScenarioYieldsOnlyBMov == OnlyBMov("scenario")

\* C14 amended: with a.mp4 smaller than 50MB the scan yields exactly the
\* record of b.mov.
C14_BelowThresholdYieldsOnlyBMov == OnlyBMov("below")

\* C14 witness: the scan of the source with a.mp4 of 49MB has completed
\* undisturbed, include-compatible off, with one record
C14_BelowScanned ==
    \E s \in Scans :
        /\ Nominal(s)
        /\ sc[s].source = "below"
        /\ ~include_compatible
        /\ Len(sc[s].batch_results) = 1
        /\ [ path |-> << "below", "a", << ".", "m", "p", "4" >> >>, by |-> "scan",
             outcome |-> "ok" ] \in probes

\* a file at or above the threshold of the scan's probe
Large(size) == size >= 50 * 1024 * 1024

\* the record is as the scan writes it when it has not probed the file
Unprobed(record) == record.format = "Unknown" /\ ~record.compatible

\* the part of C15 that does not depend on which large files are recorded: a
\* scan probes only files below the threshold, the record it produces for a
\* file at or above it is unprobed, and such a record of the list stays so
\* until convert_videos probes it
ProbeDeferred ==
    /\ \A p \in probes : p.by = "scan" => ~Large(EntryOf(p.path).size)
    /\ \A s \in Scans : \A record \in Produced(s) :
          Large(record.size) => Unprobed(record)
    /\ \A i \in DOMAIN video_files :
          Large(video_files[i].size) =>
              \/ Unprobed(video_files[i])
              \/ \E p \in probes : p.by = "convert" /\ p.path = video_files[i].path

C16_NoBatchAfterCancel ==
    \A s \in Scans :
        sc[s].cancelled_at >= 1 =>
            /\ Len(sc[s].batches) = sc[s].cancelled_at
            /\ \A k \in DOMAIN sc[s].completes :
                  sc[s].completes[k] <= Len(sc[s].video_paths)

\* the discovered files of a scan whose worker result was never taken
Unprocessed(s) == (1..Len(sc[s].video_paths)) \ sc[s].handled

\* C17: a failure that concerns one file makes the scan skip that file only:
\* when a scan that was not cancelled returns, the only discovered files it
\* has not processed are those whose worker task had not finished within the
\* time limit; the files of the later batches are processed.
C17_FailureSkipsOneFile ==
    \A s \in Scans :
        (sc[s].pc = "done" /\ ~sc[s].saw_cancel /\ sc[s].cancelled_at = -1)
            => Unprocessed(s) \subseteq sc[s].timed_out

\* C18: when the source path does not exist or is no directory, scan_videos
\* shows an error and changes nothing else: is_scanning stays false, no scan
\* thread is started, and the record list, the queue and what the scans have
\* probed are as before.
C18_RejectedSourceChangesNothing ==
    [][ ( /\ scan_videos_command(MaxScans)
          /\ ~PathExists(source_folder) \/ ~PathIsDir(source_folder) )
        => /\ messagebox = "none" /\ messagebox' # "none"
           /\ ~is_scanning /\ ~is_scanning'
           /\ nscans' = nscans
           /\ sc' = sc
           /\ video_files' = video_files
           /\ ui_queue' = ui_queue
           /\ probes' = probes
           /\ complete_order' = complete_order ]_vars

\* C18 witness: the error of a path that is no directory is on the screen, and
\* the records of the scan made before are still in the list
C18_ErrorShownListKept ==
    /\ messagebox = "Source path is not a directory!"
    /\ source_folder = "file"
    /\ nscans = 1
    /\ video_files # << >>
    /\ ~is_scanning

\* the scan threads whose completion events process_queues has taken from the
\* queue, in the order of the events
HandledCompletions ==
    SubSeq(complete_order, 1, Len(complete_order) - Len(ui_queue))

\* C19: once the completion event of the scan started last has been handled,
\* the record list is the list of the records that scan has produced, with no
\* record of an earlier scan.
C19_ListIsLatestScan ==
    (nscans >= 1 /\ nscans \in Range(HandledCompletions))
        => video_files = sc[nscans].batch_results

\* the position at which the traversal of the scan s found the file of a
\* record
Discovery(s, record) ==
    CHOOSE p \in DOMAIN sc[s].video_paths : sc[s].video_paths[p].path = record.path

\* C20: within each batch of records a scan emits, the records are in the
\* order in which the traversal found their files.
C20_BatchInDiscoveryOrder ==
    \A s \in Scans : \A k \in DOMAIN sc[s].batches :
        \A i, j \in DOMAIN sc[s].batches[k] :
            i < j => Discovery(s, sc[s].batches[k][i]) < Discovery(s, sc[s].batches[k][j])

\* no thread is inside a method of the cache
Quiescent ==
    /\ video_info_cache.lock = 0
    /\ \A t \in CacheThreads : cw[t].pc = "idle"

\* the keys present in the cache
Present == DOMAIN video_info_cache.cache

\* the n keys used last
MostRecent(n) == { used[i] : i \in (Len(used) - n + 1)..Len(used) }

\* C21: for every capacity N, once N+1 distinct keys have been put into a
\* cache that was empty, with any gets in between, exactly N keys are present
\* and they are the N keys used most recently.
C21_KeepsMostRecentN ==
    (Quiescent /\ Len(used) = video_info_cache.maxsize + 1)
        => /\ Cardinality(Present) = video_info_cache.maxsize
           /\ Present = MostRecent(video_info_cache.maxsize)

\* C21 witness: three keys have been put into a cache of capacity 2, and at
\* the put of the third the key whose last use was the oldest has gone
C21_ThirdKeyEvictsLeastRecent ==
    /\ Quiescent
    /\ video_info_cache.maxsize = 2
    /\ used = << 2, 1, 3 >>
    /\ last_op.op = "put" /\ last_op.key = 3 /\ last_op.keys_before = {1, 2}
    /\ Present = {1, 3}

\* C22: after any sequence of get, put and clear, and at every point inside
\* them, the number of entries of the cache is at most maxsize.
C22_SizeWithinCapacity ==
    Cardinality(Present) <= video_info_cache.maxsize

\* C22 witness: a new key has been put into a cache that was full, and the
\* cache is full, not more
C22_PutIntoFullCache ==
    /\ Quiescent
    /\ last_op.op = "put" /\ ~last_op.hit
    /\ Cardinality(last_op.keys_before) = video_info_cache.maxsize
    /\ Cardinality(Present) = video_info_cache.maxsize

\* the place of a key in an order of last use
PlaceIn(order, key) == CHOOSE i \in 1..Len(order) : order[i] = key

\* the key of `keys` whose last use is the oldest
LeastRecent(order, keys) ==
    CHOOSE k \in keys : \A other \in keys : PlaceIn(order, k) <= PlaceIn(order, other)

\* C23: a get that hits and a put leave their key at the most recent end of
\* access_order; a put of a new key into a full cache evicts exactly the key
\* whose last get-hit or put was the oldest; a put of a present key replaces
\* the value and evicts nothing; a get evicts nothing.
C23_RecencyAndEviction ==
    Quiescent =>
        LET c == video_info_cache
            op == last_op IN
        /\ (op.op = "put" \/ (op.op = "get" /\ op.hit))
              => /\ c.access_order # << >>
                 /\ c.access_order[Len(c.access_order)] = op.key
                 /\ op.key \in Present
        /\ (op.op = "get" /\ op.hit)
              => Present = op.keys_before /\ op.result = c.cache[op.key]
        /\ op.op = "put"
              => /\ c.cache[op.key] = op.value
                 /\ Present =
                      IF op.key \in op.keys_before
                      THEN op.keys_before
                      ELSE IF Cardinality(op.keys_before) >= c.maxsize
                      THEN (op.keys_before
                              \ {LeastRecent(op.used_before, op.keys_before)})
                           \cup {op.key}
                      ELSE op.keys_before \cup {op.key}

\* C23 witness: in a full cache of capacity 2 whose key 1 was used after its
\* key 2, a put of the new key 3 has evicted key 2
C23_PutEvictedLeastRecent ==
    /\ Quiescent
    /\ video_info_cache.maxsize = 2
    /\ last_op.op = "put" /\ last_op.key = 3 /\ ~last_op.hit
    /\ last_op.used_before = << 3, 2, 1 >>
    /\ last_op.keys_before = {1, 2}
    /\ video_info_cache.access_order = << 1, 3 >>

\* the threads that are inside a method of the cache
Inside == { t \in CacheThreads : cw[t].pc # "idle" }

\* C24: the operations of the cache are serialized under any interleaving of
\* the calling threads: at most one thread is inside a method, and it holds
\* the lock; whenever the lock is free access_order holds exactly the keys of
\* the dict, each once; and no method has raised.
C24_CacheSerialized ==
    /\ Cardinality(Inside) <= 1
    /\ \A t \in Inside : video_info_cache.lock = t
    /\ ~cache_error
    /\ video_info_cache.lock = 0 =>
          /\ Range(video_info_cache.access_order) = Present
          /\ Len(video_info_cache.access_order) = Cardinality(Present)

\* C24 witness: thread 2 is in the middle of a put that evicts, the deque and
\* the dict disagree, and thread 1, whose put returned last, is kept out
C24_SecondThreadMidPut ==
    /\ video_info_cache.lock = 2
    /\ cw[2].pc = "put_del"
    /\ cw[1].pc = "idle"
    /\ Range(video_info_cache.access_order) # Present
    /\ last_op.op = "put"
    /\ ~ENABLED CacheCall(1, "get", cw[2].oldest, "none")

\* C25: put never waits for room: a producer outside put can always call it,
\* and when the queue holds maxsize items the call leaves the pending items
\* and their order unchanged, adds exactly 1 to dropped_items and returns
\* False; an item is appended only when there is room; at all times the
\* queue holds at most maxsize items and dropped_items is the number of puts
\* that have returned False.
C25_PutDropsWhenFull ==
    /\ [](/\ Len(safe_queue.queue) <= safe_queue.maxsize
          /\ safe_queue.dropped_items = false_returns
          /\ \A t \in Producers :
                (pw[t].pc = "idle" /\ safe_queue.dropped_items < MaxDrops)
                    => \A item \in Items : ENABLED QueuePut(t, item))
    /\ [][ /\ \A t \in Producers :
                /\ (pw[t].pc = "idle" /\ pw'[t].pc = "full")
                      => /\ Len(safe_queue.queue) = safe_queue.maxsize
                         /\ safe_queue' = safe_queue
                /\ (pw[t].pc = "count" /\ pw'[t].pc = "idle")
                      => /\ safe_queue'.queue = safe_queue.queue
                         /\ safe_queue'.dropped_items = safe_queue.dropped_items + 1
                         /\ false_returns' = false_returns + 1
                /\ (pw[t].pc = "full" /\ pw'[t].pc = "count")
                      => safe_queue'.queue = safe_queue.queue
           /\ Len(safe_queue'.queue) > Len(safe_queue.queue)
                => /\ Len(safe_queue.queue) < safe_queue.maxsize
                   /\ \E item \in Items :
                         safe_queue'.queue = Append(safe_queue.queue, item)
           /\ false_returns' # false_returns
                => \E t \in Producers : pw[t].pc = "count" /\ pw'[t].pc = "idle" ]_vars

\* C25 witness: two puts into a full queue of two items have returned False,
\* and the two items are still there, in their order
C25_TwoItemsDropped ==
    /\ safe_queue.maxsize = 2
    /\ safe_queue.queue = << "log", "progress" >>
    /\ safe_queue.dropped_items = 2
    /\ false_returns = 2
    /\ \A t \in Producers : pw[t].pc = "idle"

\* the serial numbers of a sequence of events
Serials(events) == [ i \in 1..Len(events) |-> events[i][2] ]

\* events are taken from a queue in the order they were put: the events
\* handled in this tick, followed by those still waiting, are consecutive,
\* and continue the events handled in earlier ticks
Fifo(taken, waiting, before) ==
    \A i \in 1..Len(taken \o waiting) :
        Serials(taken \o waiting)[i] = before - Len(taken) + i

\* C26: in one tick of process_queues at most QUEUE_PROCESS_LIMIT events are
\* handled from the log queue and at most QUEUE_PROCESS_LIMIT from the UI
\* queue, each in the order they were put, and the next tick is scheduled
\* after 50 ms when one of the two queues reached the limit in this tick and
\* after UI_UPDATE_INTERVAL otherwise
C26_BoundedFifoTick ==
    /\ Len(pq.log_handled) <= QUEUE_PROCESS_LIMIT
    /\ Len(pq.ui_handled) <= QUEUE_PROCESS_LIMIT
    /\ Fifo(pq.log_handled, log_queue, handled.log)
    /\ Fifo(pq.ui_handled, ui_queue, handled.ui)
    /\ pq.scheduled =>
          /\ pq.next_interval \in {50, UI_UPDATE_INTERVAL}
          /\ pq.next_interval = 50 <=>
                \/ Len(pq.log_handled) = QUEUE_PROCESS_LIMIT
                \/ Len(pq.ui_handled) = QUEUE_PROCESS_LIMIT

\* a tick has handled QUEUE_PROCESS_LIMIT events of the UI queue and fewer of
\* the log queue, has left an event on the UI queue and has scheduled the
\* next tick after 50 ms
C26_SaturatedTick ==
    /\ pq.pc = "wait"
    /\ pq.scheduled
    /\ Len(pq.ui_handled) = QUEUE_PROCESS_LIMIT
    /\ Len(pq.log_handled) \in 1..(QUEUE_PROCESS_LIMIT - 1)
    /\ ui_queue # << >>
    /\ pq.next_interval = 50

\* the results the probe returns on a failure
IsSentinel(result) ==
    /\ result.format \in {"Error", "Timeout"}
    /\ ~result.compatible
    /\ result.codec = "Unknown"

\* the video streams of a list of streams, by their positions
VideoAt(streams) == { i \in 1..Len(streams) : streams[i].codec_type = "video" }

\* the codec of the first video stream is h264
FirstVideoIsH264(streams) ==
    \E i \in VideoAt(streams) :
        /\ \A j \in VideoAt(streams) : i <= j
        /\ streams[i].codec_name \in {"h264", "H264"}

\* C27: the metadata probe never propagates an exception: get_video_info and
\* get_video_info_cached always return a result; when ffprobe exits non-zero,
\* times out, cannot be run or prints no JSON object the result is a sentinel
\* with compatible = false and codec Unknown, as it is on any other failure;
\* a result that is no sentinel has compatible = true exactly when its format
\* is MP4 and the codec of the first video stream is h264
C27_ProbeNeverRaises ==
    probe.called # "none" =>
        /\ probe.raised = "none"
        /\ probe.result # NoResult
        /\ (probe.run.exit # "zero" \/ probe.run.stdout.kind # "object")
              => IsSentinel(probe.result)
        /\ ~IsSentinel(probe.result) =>
              /\ probe.run.exit = "zero"
              /\ probe.result.compatible <=>
                    /\ probe.result.format = "MP4"
                    /\ FirstVideoIsH264(probe.run.stdout.streams)

\* ffprobe exited non-zero and the cached probe returned the sentinel
C27_FailedProbeReturnedSentinel ==
    /\ probe.run.exit = "nonzero"
    /\ probe.called = "miss"
    /\ probe.result = Sentinel("Error")

\* the place of a quality setting in the order high, medium, low; a setting
\* outside the three counts as medium
QualityRank(quality) ==
    CASE quality = "high" -> 1 [] quality = "low" -> 3 [] OTHER -> 2

\* the positions of the -crf flag in a command
CrfFlags(args) == { i \in 1..Len(args) : args[i] = "-crf" }

\* C28: the rate-control value put on the transcode command line is monotonic
\* in the quality setting, value(high) < value(medium) < value(low), and a
\* setting outside {high, medium, low} yields the medium value: every command
\* carries exactly one -crf value, and of any two commands built the one of
\* the higher quality carried the smaller value, commands of the same rank
\* the same value
C28_RateControlMonotonic ==
    /\ cmd.args # << >> =>
          /\ Cardinality(CrfFlags(cmd.args)) = 1
          /\ \A i \in CrfFlags(cmd.args) :
                /\ i < Len(cmd.args)
                /\ << cmd.quality, Number(cmd.args[i + 1]) >> \in cmd.crf_seen
    /\ \A c, d \in cmd.crf_seen :
          /\ QualityRank(c[1]) < QualityRank(d[1]) => c[2] < d[2]
          /\ QualityRank(c[1]) = QualityRank(d[1]) => c[2] = d[2]

\* commands have been built under high, medium, low and a setting outside them
C28_AllQualitiesBuilt ==
    /\ { c[1] : c \in cmd.crf_seen } = QualityNames \cup {"ultra"}
    /\ cmd.quality = "low"

\* C29: at startup, if ffmpeg or ffprobe cannot be run, the condition is
\* reported to the user and the application exits before any scan or
\* conversion can be started: once the check is over, a machine on which one
\* of the two tools does not answer has an exited application with its error
\* dialog shown, and no scan and no conversion has been started
C29_MissingToolIsFatal ==
    (app # "starting" /\ {tools.ffmpeg, tools.ffprobe} # {"ok"}) =>
        /\ app = "exited"
        /\ messagebox # "none"
        /\ nscans = 0
        /\ nruns = 0

\* the enumeration of the status of a record
StatusValues == {"Ready", "Converting", "Converted", "Failed", "Skipped"}

\* C30: every per-item status value held in a record or emitted in a status
\* update event is one of Ready, Converting, Converted, Failed, Skipped
\* (a record for which no update has been emitted holds Ready)
C30_StatusInEnumeration ==
    \A r \in Runs : \A k \in DOMAIN status[r] :
        (IF status[r][k] = "none" THEN "Ready" ELSE status[r][k]) \in StatusValues

\* the places (batch, position) at which the batch-of-records events of the
\* scan s carry a record
CarriedAt(s, record) ==
    { place \in UNION { {b} \X DOMAIN sc[s].batches[b] : b \in DOMAIN sc[s].batches } :
        sc[s].batches[place[1]][place[2]] = record }

\* C33: every record of the final record list of a scan is carried by exactly
\* one batch-of-records event of that scan, and the events carry no other
\* record, whatever the number of records.
C33_EachRecordInOneBatch ==
    \A s \in Scans :
        (sc[s].pc = "done" /\ sc[s].source # "none") =>
            /\ \A k \in DOMAIN sc[s].batch_results :
                  Cardinality(CarriedAt(s, sc[s].batch_results[k])) = 1
            /\ \A b \in DOMAIN sc[s].batches : \A k \in DOMAIN sc[s].batches[b] :
                  sc[s].batches[b][k] \in Range(sc[s].batch_results)

\* C34: every started scan thread emits exactly one scan completion event, as
\* its last event, on every path: a thread that has returned has put one
\* scan_complete, a thread that is still running none.
C34_OneCompletionPerScan ==
    \A s \in Scans :
        Len(sc[s].completes) = IF sc[s].pc = "done" THEN 1 ELSE 0

\* C37: at any time at most one scan thread is executing.
C37_OneScanThread ==
    Cardinality({ s \in Scans : ScanAlive(s) }) <= 1

\* C36: a completion event emitted by a cancelled scan never affects a scan
\* started afterwards: the flag is_scanning stays set as long as the latest
\* scan is running and has not been cancelled itself, and the thread of a
\* cancelled scan takes in no further result.
C36_CancelledRunStaysDead ==
    /\ [](\A s \in Scans :
             (s = nscans /\ ScanAlive(s) /\ sc[s].cancelled_at = -1) => is_scanning)
    /\ [][ \A s \in Scans :
             sc[s].cancelled_at # -1 => sc'[s].handled = sc[s].handled ]_vars

\* C35: under fair scheduling of the consumer every completion event put on
\* the status bus is eventually handled: once a scan thread has returned,
\* the flag is_scanning eventually becomes false.
C35_CompletionEventuallyHandled ==
    \A s \in Scans : (sc[s].pc = "done") ~> ~is_scanning

\* C38: a record is reported Skipped only if its destination file existed
\* before the conversion run started: in a run started with an empty output
\* folder no record is reported Skipped, and every record that has got its
\* final status has had its own transcode attempt.
C38_NoSkipIntoEmptyFolder ==
    \A k \in DOMAIN status[1] :
        /\ status[1][k] # "Skipped"
        /\ status[1][k] \in {"Converted", "Failed"} => k \in launched[1]

\* C39: in every conversion_done event emitted by convert_videos, successful
\* + failed + skipped equals the number of selected files whose processing
\* began in that run; it never exceeds the number of selected files and
\* equals it when the run was not cancelled.
C39_CountsAddUp ==
    [][ \A r \in Runs :
          (conv[r].pc # "done" /\ conv'[r].pc = "done") =>
             /\ Len(done_events'[r]) = Len(done_events[r]) + 1
             /\ LET event == done_events'[r][Len(done_events'[r])]
                    sum == event[1] + event[2] + event[3] IN
                /\ sum = conv[r].processed
                /\ sum <= Len(conv[r].selected)
                /\ is_converting => sum = Len(conv[r].selected) ]_vars

\* a run that was not cancelled has ended and reported one success and one
\* failure, the failure being an iteration that raised
C39_RunWithRaiseReported ==
    /\ conv[1].pc = "done"
    /\ is_converting
    /\ done_events[1] = << << 1, 1, 0 >> >>
    /\ \E k \in DOMAIN status[1] : status[1][k] = "Error"

\* C31: no per-file failure terminates the conversion thread: when the
\* processing of a file fails, the failed count increases by 1, the file gets
\* a terminal status, and the thread goes on to the next file of the
\* selection.
C31_FailureBecomesStatus ==
    [][ \A r \in Runs :
          conv'[r].failed # conv[r].failed =>
             /\ conv'[r].failed = conv[r].failed + 1
             /\ conv'[r].pc = "loop"
             /\ conv'[r].processed = conv[r].processed + 1
             /\ status'[r][conv[r].processed + 1] \in {"Failed", "Error"} ]_vars

\* a state in which the list is at rest: no scan thread is running and every
\* display event put so far has been handled
TreeAtRest ==
    \A s \in Scans : ~ScanAlive(s) /\ tree_seen[s] = Len(TreeEvents(s))

\* C32: the record list and the displayed list stay in sync: whenever the
\* list is at rest, the row at position i shows the file of record i and its
\* selection, whatever scans, insertions, sorts, toggles and status updates
\* came before.
C32_RowShowsRecord ==
    TreeAtRest =>
        \A i \in DOMAIN video_files :
            /\ i \in DOMAIN video_tree
            /\ video_tree[i].path = video_files[i].path
            /\ (video_tree[i].select = Ticked) = video_files[i].selected

\* C40: declining the quit confirmation while a scan or a conversion is in
\* progress is a no-op on both entry paths: as long as the application runs
\* after a declined request, the shutdown event is unset and the queue
\* consumer is still scheduled, and the step that declines leaves the flags
\* and the threads of the operations as they were.
C40_DeclinedCloseIsNoOp ==
    /\ []((app = "running" /\ quit_dialog = "declined") =>
             (~shutdown_event /\ pq.pc # "stopped"))
    /\ [][ (quit_dialog' = "declined" /\ quit_dialog # "declined") =>
              (is_converting' = is_converting /\ is_scanning' = is_scanning
                 /\ conv' = conv /\ scan' = scan) ]_vars

====
